---- MODULE Spec2Model ----
(***************************************************************************)
(* Uni-Shark backend: the job executor (tasks.execute_scrape_task), the    *)
(* enhanced scraper with its circuit breaker (utils.error_tracker), the    *)
(* notification deduplicator and the API handlers that write the same      *)
(* tables.  Jobs are processes whose steps are the database statements     *)
(* and external calls of the code, so that two jobs of one tenant (manual  *)
(* lane and background lane) interleave as the workers allow.              *)
(*                                                                         *)
(* Time is counted in minutes (time.time() is in seconds; the dedup        *)
(* window is dedup_window_minutes * 60 seconds, the retry countdown 60     *)
(* seconds) and advances in steps of TickStep.  The scraping_errors table is kept as its most recent row per *)
(* tenant: every reader in the modelled code orders by occurred_at desc    *)
(* and takes limit(1).  Rows are ordered by insertion.                     *)
(***************************************************************************)
EXTENDS Integers, Sequences, FiniteSets, TLC

\* ---------------------------------------------------------------- bounds
Tenants == {"t1"}
Jobs == {"j1", "j2"}
Worker == {"j1"}
MaxTime == 7
MaxMinute == 7
MaxItems == 2
MaxHour == 2
MaxQueued == 2
MaxManual == 1
TickStep == 3

\* ----------------------------------------------------- program constants
max_consecutive_failures == 10
dedup_window_minutes == 5
max_retries == 2
countdown == 1
VagueLen == 10
NumPages == 4

VARIABLES
    clock,                \* wall clock, minutes
    user_credentials,     \* table user_credentials, one row per tenant
    scraping_errors,      \* table scraping_errors: most recent row per tenant
    notification_dedup,   \* table notification_dedup: the rows a select can still return
    scrape_history,       \* table scrape_history, summarised per tenant
    job,                  \* the worker processes
    resetting,            \* reset_suspension handlers between their two statements
    failed_runs,          \* history: failed executions since the count was last 0
    diff,                 \* one run of the change detector (tasks.py 198-211)
    captcha,              \* one login with its CAPTCHA solving
    sched,                \* the scheduler, the manual trigger and the two lanes
    dispatch,             \* one event going out to the channels
    remind,               \* the deadline reminder sweeps and table sent_reminders
    scraper,              \* one run of the scraper holding its browser session
    agg                   \* one request for the aggregate over a tenant's history

\* The executor, circuit breaker and deduplicator
core == <<clock, user_credentials, scraping_errors, notification_dedup,
          scrape_history, job, resetting, failed_runs>>

\* The components that are checked on their own
units == <<diff, captcha, sched, dispatch, remind, scraper, agg>>

vars == <<core, units>>

None == "None"

\* ------------------------------------------------------ error classifier
\* A message or page is the set of the classifier's phrases it contains
\* (lower-cased), closed under containment of one phrase in another.
\* A classifier that answers unknown_error when no rule matches
detect_error_type_unknown(error_lower, page_lower) ==
    IF "wrong captcha" \in page_lower
         \/ ("errorlbl" \in page_lower /\ "wrong captcha" \in page_lower)
    THEN "wrong_captcha"
    ELSE IF "please enter correct username" \in page_lower
         \/ ("invalid" \in page_lower /\ "credentials" \in error_lower)
    THEN "wrong_credentials"
    ELSE IF "ip ban" \in error_lower \/ "banned" \in error_lower
    THEN "ip_banned"
    ELSE IF "no credit" \in error_lower \/ "insufficient credit" \in error_lower
    THEN "no_captcha_credit"
    ELSE IF ("nopecha" \in error_lower /\ "failed" \in error_lower)
         \/ ("freecaptchabypass" \in error_lower /\ "failed" \in error_lower)
    THEN "captcha_service_error"
    ELSE IF "captcha" \in error_lower
         /\ ("failed" \in error_lower \/ "error" \in error_lower \/ "timeout" \in error_lower)
    THEN "captcha_service_error"
    ELSE IF "timeout" \in error_lower \/ "timed out" \in error_lower
    THEN "network_timeout"
    ELSE IF "connection" \in error_lower
         /\ ("failed" \in error_lower \/ "refused" \in error_lower \/ "reset" \in error_lower)
    THEN "connection_failed"
    ELSE IF ("page" \in error_lower /\ ("load" \in error_lower \/ "not found" \in error_lower))
         \/ "404" \in error_lower
    THEN "page_load_failed"
    ELSE IF "no such window" \in error_lower \/ "target window already closed" \in error_lower
    THEN "browser_crashed"
    ELSE IF ("webdriver" \in error_lower \/ "driver" \in error_lower)
         /\ ("error" \in error_lower \/ "failed" \in error_lower)
    THEN "driver_error"
    ELSE IF "session" \in error_lower
         /\ ("invalid" \in error_lower \/ "expired" \in error_lower)
    THEN "session_expired"
    ELSE IF "maintenance" \in page_lower \/ "under maintenance" \in page_lower
    THEN "dulms_maintenance"
    ELSE IF "overloaded" \in page_lower \/ "high traffic" \in page_lower
         \/ "server busy" \in page_lower
    THEN "dulms_overloaded"
    ELSE IF ("element not found" \in error_lower /\ "selenium" \in error_lower)
         \/ ("unexpected" \in error_lower /\ "page" \in error_lower)
    THEN "unexpected_page_structure"
    ELSE IF "login" \in error_lower /\ ("failed" \in error_lower \/ "error" \in error_lower)
    THEN "wrong_credentials"
    ELSE IF "scraping" \in error_lower /\ "failed" \in error_lower
    THEN "scraping_failed"
    ELSE "unknown_error"

\* error_tracker.py detect_error_type, lines 247-317, on the lowered inputs
detect_error_type(error_lower, page_lower) ==
    IF "wrong captcha" \in page_lower
         \/ ("errorlbl" \in page_lower /\ "wrong captcha" \in page_lower)
    THEN "wrong_captcha"
    ELSE IF "please enter correct username" \in page_lower
         \/ ("invalid" \in page_lower /\ "credentials" \in error_lower)
    THEN "wrong_credentials"
    ELSE IF "ip ban" \in error_lower \/ "banned" \in error_lower
    THEN "ip_banned"
    ELSE IF "no credit" \in error_lower \/ "insufficient credit" \in error_lower
    THEN "no_captcha_credit"
    ELSE IF ("nopecha" \in error_lower /\ "failed" \in error_lower)
         \/ ("freecaptchabypass" \in error_lower /\ "failed" \in error_lower)
    THEN "captcha_service_error"
    ELSE IF "captcha" \in error_lower
         /\ ("failed" \in error_lower \/ "error" \in error_lower \/ "timeout" \in error_lower)
    THEN "captcha_service_error"
    ELSE IF "timeout" \in error_lower \/ "timed out" \in error_lower
    THEN "network_timeout"
    ELSE IF "connection" \in error_lower
         /\ ("failed" \in error_lower \/ "refused" \in error_lower \/ "reset" \in error_lower)
    THEN "connection_failed"
    ELSE IF ("page" \in error_lower /\ ("load" \in error_lower \/ "not found" \in error_lower))
         \/ "404" \in error_lower
    THEN "page_load_failed"
    ELSE IF "no such window" \in error_lower \/ "target window already closed" \in error_lower
    THEN "browser_crashed"
    ELSE IF ("webdriver" \in error_lower \/ "driver" \in error_lower)
         /\ ("error" \in error_lower \/ "failed" \in error_lower)
    THEN "driver_error"
    ELSE IF "session" \in error_lower
         /\ ("invalid" \in error_lower \/ "expired" \in error_lower)
    THEN "session_expired"
    ELSE IF "maintenance" \in page_lower \/ "under maintenance" \in page_lower
    THEN "dulms_maintenance"
    ELSE IF "overloaded" \in page_lower \/ "high traffic" \in page_lower
         \/ "server busy" \in page_lower
    THEN "dulms_overloaded"
    ELSE IF ("element not found" \in error_lower /\ "selenium" \in error_lower)
         \/ ("unexpected" \in error_lower /\ "page" \in error_lower)
    THEN "unexpected_page_structure"
    ELSE IF "login" \in error_lower /\ ("failed" \in error_lower \/ "error" \in error_lower)
    THEN "wrong_credentials"
    ELSE IF "scraping" \in error_lower /\ "failed" \in error_lower
    THEN "scraping_failed"
    ELSE "scraping_failed"

\* The category the spec calls generic_failure.
GenericTypes == {"scraping_failed", "unknown_error"}

\* --------------------------------------------- the exceptions of one job
\* Each is the message the code raises (its phrases and its stripped
\* length) and the page the driver shows at that moment.
Exceptions ==
    [ no_credentials |->      \* tasks.py:157 "No credentials found for user_id: ..."
        [kw |-> {"credentials", "error"}, len |-> 60, page |-> {}],
      driver_init |->         \* enhanced_scraper.py:106 "Failed to initialize driver after 2 attempts"
        [kw |-> {"failed", "driver"}, len |-> 44, page |-> {}],
      max_login |->           \* scraper_logic.py:738 "Maximum login attempts reached."
        [kw |-> {"login"}, len |-> 31, page |-> {}],
      max_login_captcha |->   \* the same, the login page showing "Wrong Captcha"
        [kw |-> {"login"}, len |-> 31, page |-> {"wrong captcha", "errorlbl"}],
      session_validation |->  \* enhanced_scraper.py:121, selenium saying "unknown error: ..."
        [kw |-> {"session", "failed", "login", "unknown error", "error"},
         len |-> 80, page |-> {}],
      persist |->             \* tasks.py:216 the scrape_history insert raising
        [kw |-> {"connection", "reset"}, len |-> 40, page |-> {}]
    ]

LoginExceptions == {"max_login", "max_login_captcha", "session_validation"}

\* enhanced_scraper.py:67
Vague(e) == "unknown error" \in Exceptions[e].kw \/ Exceptions[e].len < VagueLen

\* ------------------------------------------------------------ the tables
NoRow == [error_type |-> None, consecutive_failure_count |-> 0,
          should_suspend_scraping |-> FALSE]

NoCredentials == [exists |-> FALSE, is_automation_active |-> FALSE,
                  scraping_suspended |-> FALSE, suspension_reason |-> None,
                  suspended_at |-> -1]

IdleJob == [pc |-> "idle", user_id |-> None, queue_type |-> None, retries |-> 0,
            eta |-> 0, exc |-> None, ctx |-> None, error_type |-> None,
            current_count |-> 0, should_suspend |-> FALSE, ntype |-> None,
            k |-> 0, result |-> None, driver |-> "none",
            content |-> None,
            n_events |-> 0, n_records |-> 0, classified |-> FALSE,
            notified |-> {}, alert_at |-> -1, n_alerts |-> 0]

\* A fresh execution of the task body: the per-execution locals are reset,
\* the request (tenant, lane, retry number) is kept.
NewExecution(r) ==
    [IdleJob EXCEPT !.pc = "fetch", !.user_id = r.user_id,
                    !.queue_type = r.queue_type, !.retries = r.retries]

\* -------------------------------------------------------- circuit breaker
\* ErrorTracker._get_consecutive_failure_count
get_consecutive_failure_count(t) ==
    IF scraping_errors[t].error_type = None THEN 0
    ELSE IF scraping_errors[t].error_type = "success" THEN 0
    ELSE scraping_errors[t].consecutive_failure_count

\* ErrorTracker.log_error, lines 67-70
new_count(current_count) == current_count + 1

should_suspend_at(count) == count >= max_consecutive_failures

\* The row log_error inserts, lines 75-83
error_data(error_type, count) ==
    [error_type |-> error_type, consecutive_failure_count |-> count,
     should_suspend_scraping |-> should_suspend_at(count)]

\* The row log_success inserts, lines 112-119
success_data ==
    [error_type |-> "success", consecutive_failure_count |-> 0,
     should_suspend_scraping |-> FALSE]

\* The row reset_suspension inserts, api/error_tracking.py lines 111-118
manual_reset_data ==
    [error_type |-> "manual_reset", consecutive_failure_count |-> 0,
     should_suspend_scraping |-> FALSE]

\* ErrorTracker._suspend_auto_scraping: an update, so a tenant without a
\* credentials row is left without one.
suspended_row(c, now) ==
    IF c.exists
    THEN [c EXCEPT !.is_automation_active = FALSE, !.scraping_suspended = TRUE,
                   !.suspension_reason = "max_consecutive_failures",
                   !.suspended_at = now]
    ELSE c

\* ErrorTracker._enable_auto_scraping / reset_suspension: the update
\* (suspended_at -1 is the column being null)
enabled_row(c) ==
    IF c.exists
    THEN [c EXCEPT !.is_automation_active = TRUE, !.scraping_suspended = FALSE,
                   !.suspension_reason = None, !.suspended_at = -1]
    ELSE c

\* ---------------------------------------------------------- deduplicator
\* UnifiedNotifier.send_error_notification / _get_friendly_error_message:
\* the content hashed is the error type and the friendly message, which is
\* a fixed text per type, or holds the raw message for a type without one.
FriendlyTypes == {"wrong_credentials", "wrong_captcha", "ip_banned",
    "no_captcha_credit", "captcha_service_error", "network_timeout",
    "connection_failed", "page_load_failed", "browser_crashed", "driver_error",
    "session_expired", "dulms_maintenance", "dulms_overloaded",
    "unexpected_page_structure", "unknown_error"}

friendly_message(error_type, exc) ==
    IF error_type \in FriendlyTypes THEN <<"friendly", error_type>>
    ELSE <<"An error occurred", exc>>

\* NotificationDeduplicator.generate_content_hash of the notifier's content
content_hash(r) ==
    IF r.ctx = "call" THEN <<r.ntype, r.content>>
    ELSE IF r.ntype = "error"
    THEN <<"error", r.error_type, friendly_message(r.error_type, r.exc)>>
    ELSE <<"suspension", "Auto-scraping suspended due to consecutive failures">>

\* should_send_notification line 37
notification_id(user_id, ntype, hash) == <<user_id, ntype, hash>>

\* The select with the comparison strict: a row exactly one window old
\* no longer counts.
recent_rows_strict(id, now) ==
    {row \in notification_dedup :
        /\ row.notification_id = id
        /\ row.sent_at > now - dedup_window_minutes}

\* The select with the comparison turned round: only rows older than the
\* window are returned.
recent_rows_wrong_direction(id, now) ==
    {row \in notification_dedup :
        /\ row.notification_id = id
        /\ row.sent_at <= now - dedup_window_minutes}

\* should_send_notification lines 40-46: the rows the select returns
recent_rows(id, now) ==
    {row \in notification_dedup :
        /\ row.notification_id = id
        /\ row.sent_at >= now - dedup_window_minutes}

\* History bookkeeping: when the newest suspension alert still in the table
\* was delivered to the tenant (-1: there is none).  Rows carry the worker
\* that wrote them (by) and, for a suspension alert, this value as it was
\* when the failure behind the alert was recorded (prior).
SuspensionRows(t) ==
    {row \in notification_dedup :
        row.notification_id[1] = t /\ row.notification_id[2] = "suspension"}

LatestAlert(t) ==
    IF SuspensionRows(t) = {} THEN -1
    ELSE CHOOSE s \in {row.sent_at : row \in SuspensionRows(t)} :
            \A row \in SuspensionRows(t) : row.sent_at <= s

\* ------------------------------------------- control flow inside one job
\* The locals of a call that has returned hold nothing any more.
EndOfCall(r) ==
    [r EXCEPT !.ctx = None, !.error_type = None, !.current_count = 0,
              !.should_suspend = FALSE, !.ntype = None]

\* run_scrape_with_error_tracking returns "failed" (lines 70-80, 246-253):
\* the finally clause releases the driver, and execute_scrape_task raises
\* (tasks.py:175-176) into its except clause.
ReturnFailed(r) ==
    [EndOfCall(r) EXCEPT !.pc = "task_except",
              !.driver = IF r.driver = "open" THEN "closed" ELSE r.driver]

\* run_scrape_with_error_tracking's except clause, lines 64-77, up to the
\* first statement of _handle_scraping_error that touches the database.
EnterExcept(r) ==
    IF Vague(r.exc)
    THEN ReturnFailed(r)
    ELSE [EndOfCall(r) EXCEPT !.ctx = "handler", !.classified = TRUE,
                   !.error_type = detect_error_type(Exceptions[r.exc].kw,
                                     IF r.driver = "open"
                                     THEN Exceptions[r.exc].page ELSE {}),
                   !.pc = "le_read"]

\* UnifiedNotifier.send_*_notification up to the deduplicator's select
StartNotify(r, ntype) ==
    [r EXCEPT !.ntype = ntype, !.notified = @ \cup {ntype}, !.pc = "dd_select"]

\* After send_suspension_notification (or when it is not called)
AfterSuspension(r) ==
    IF r.ctx = "handler" THEN ReturnFailed(r) ELSE EnterExcept(r)

\* After should_send_notification has returned sent: the notifier delivers
\* (n_alerts counts the error alerts this execution has delivered to the
\* tenant's channels) or returns, and its caller goes on.  A call of the module's
\* should_send_notification function just returns the answer.
AfterNotify(r, sent) ==
    LET q == IF sent /\ r.ntype = "error"
             THEN [r EXCEPT !.n_alerts = @ + 1] ELSE r
    IN
    IF r.ctx = "call"
    THEN [EndOfCall(r) EXCEPT !.pc = "done",
                              !.result = IF sent THEN "SENT" ELSE "BLOCKED"]
    ELSE IF r.ntype = "error" /\ r.should_suspend
    THEN StartNotify(q, "suspension")
    ELSE AfterSuspension(q)

\* _scrape_all_pages_with_tracking: on to the next page, or out of the loop
NextPage(r) ==
    IF r.k >= NumPages THEN [EndOfCall(r) EXCEPT !.pc = "ls_insert", !.k = 0]
    ELSE [EndOfCall(r) EXCEPT !.pc = "page", !.k = r.k + 1]

BreakPages(r) == [EndOfCall(r) EXCEPT !.pc = "ls_insert", !.k = 0]

\* What follows a completed log_error call, by call site
AfterLogError(r) ==
    CASE r.ctx = "driver" ->       \* enhanced_scraper.py:103-106
           IF r.should_suspend THEN StartNotify(r, "suspension")
           ELSE EnterExcept(r)
      [] r.ctx \in {"login", "handler"} ->   \* lines 150, 238
           StartNotify(r, "error")
      [] r.ctx = "page" -> NextPage(r)        \* lines 193-196
      [] r.ctx = "page_inner" ->              \* lines 176-180, then 198-211
           [EndOfCall(r) EXCEPT !.ctx = "page_break",
                                !.error_type = "session_expired", !.pc = "le_read"]
      [] r.ctx = "page_break" -> BreakPages(r)  \* lines 208-211

\* A call of ErrorTracker.log_error from call site ctx
StartLogError(r, ctx, error_type) ==
    [r EXCEPT !.ctx = ctx, !.error_type = error_type, !.pc = "le_read"]

\* ------------------------------------------------------------------ Init
NoDiff == [pc |-> "idle"]
NoCaptcha == [pc |-> "idle"]
NoSched == [pc |-> "idle"]
NoDispatch == [pc |-> "idle"]
NoRemind == [pc |-> "idle"]
NoScraper == [pc |-> "idle"]
NoAgg == [pc |-> "idle"]

\* The components checked on their own are at rest.
UnitsIdle ==
    /\ diff = NoDiff
    /\ captcha = NoCaptcha
    /\ sched = NoSched
    /\ dispatch = NoDispatch
    /\ remind = NoRemind
    /\ scraper = NoScraper
    /\ agg = NoAgg

\* The tables are empty, or they are what one job left behind whose three
\* executions (the first and its max_retries retries) all failed at login
\* more than a dedup window ago: six failure events from three failed runs
\* (log_error is called twice per failed run, enhanced_scraper.py lines 145
\* and 233), a failed job record, and no dedup row young enough to matter.
Init ==
    /\ clock = 0
    /\ \E failed_before \in BOOLEAN :
          /\ user_credentials = [t \in Tenants |->
                IF failed_before
                THEN [NoCredentials EXCEPT !.exists = TRUE,
                                           !.is_automation_active = TRUE]
                ELSE NoCredentials]
          /\ scraping_errors = [t \in Tenants |->
                IF failed_before
                THEN error_data("scraping_failed", 2 * (max_retries + 1))
                ELSE NoRow]
          /\ scrape_history = [t \in Tenants |->
                [last |-> IF failed_before THEN "FAILED" ELSE None,
                 has_success |-> FALSE]]
          /\ failed_runs = [t \in Tenants |->
                IF failed_before THEN max_retries + 1 ELSE 0]
    /\ notification_dedup = {}
    /\ job = [j \in Jobs |-> IdleJob]
    /\ resetting = [t \in Tenants |-> FALSE]
    /\ UnitsIdle

\* History bookkeeping: an execution of a job of tenant t has failed.
CountFailedRun(t) ==
    failed_runs' = [failed_runs EXCEPT
        ![t] = IF @ < max_consecutive_failures THEN @ + 1 ELSE @]

\* ------------------------------------------------------------- the clock
Tick ==
    /\ clock + TickStep <= MaxTime
    /\ clock' = clock + TickStep
    /\ notification_dedup' =
          {row \in notification_dedup : row.sent_at >= clock' - dedup_window_minutes}
    /\ UNCHANGED <<user_credentials, scraping_errors, scrape_history, job,
                   resetting, failed_runs,
                   units>>

\* The clock of the deduplicator's own specification: minute by minute,
\* and the table keeps every row.
Minute ==
    /\ clock < MaxMinute
    /\ clock' = clock + 1
    /\ UNCHANGED <<user_credentials, scraping_errors, notification_dedup,
                   scrape_history, job, resetting, failed_runs,
                   units>>

\* ---------------------------------------------------------- API handlers
\* api/settings.py update_user_settings: the upsert of the posted fields.
\* automation is the posted is_automation_active, or "unset".
update_user_settings(t, automation) ==
    /\ user_credentials' = [user_credentials EXCEPT ![t] =
          [@ EXCEPT !.exists = TRUE,
                    !.is_automation_active =
                        IF automation = "unset" THEN @ ELSE automation = "true"]]
    /\ UNCHANGED <<clock, scraping_errors, notification_dedup, scrape_history,
                   job, resetting, failed_runs,
                   units>>

\* The update clearing the suspension flag alone
reset_suspension_update_flag_only(t) ==
    /\ ~resetting[t]
    /\ user_credentials' = [user_credentials EXCEPT ![t] =
          IF @.exists THEN [@ EXCEPT !.scraping_suspended = FALSE] ELSE @]
    /\ resetting' = [resetting EXCEPT ![t] = TRUE]
    /\ UNCHANGED <<clock, scraping_errors, notification_dedup, scrape_history,
                   job, failed_runs,
                   units>>

\* api/error_tracking.py reset_suspension, first statement (lines 103-108)
reset_suspension_update(t) ==
    /\ ~resetting[t]
    /\ user_credentials' = [user_credentials EXCEPT ![t] = enabled_row(@)]
    /\ resetting' = [resetting EXCEPT ![t] = TRUE]
    /\ UNCHANGED <<clock, scraping_errors, notification_dedup, scrape_history,
                   job, failed_runs,
                   units>>

\* reset_suspension, second statement (lines 111-118)
reset_suspension_insert(t) ==
    /\ resetting[t]
    /\ scraping_errors' = [scraping_errors EXCEPT ![t] = manual_reset_data]
    /\ resetting' = [resetting EXCEPT ![t] = FALSE]
    /\ failed_runs' = [failed_runs EXCEPT ![t] = 0]
    /\ UNCHANGED <<clock, user_credentials, notification_dedup, scrape_history, job,
                   units>>

\* ------------------------------------------------------------- the queue
\* main.py run_manual_scrape: apply_async on the manual lane
run_manual_scrape(j, t) ==
    /\ job[j].pc = "idle"
    /\ job' = [job EXCEPT ![j] =
          NewExecution([IdleJob EXCEPT !.user_id = t, !.queue_type = "manual"])]
    /\ UNCHANGED <<clock, user_credentials, scraping_errors, notification_dedup,
                   scrape_history, resetting, failed_runs,
                   units>>

\* tasks.py queue_all_users_scrape: a background job for a tenant with
\* automation enabled (line 258)
queue_all_users_scrape(j, t) ==
    /\ job[j].pc = "idle"
    /\ user_credentials[t].exists
    /\ user_credentials[t].is_automation_active
    /\ job' = [job EXCEPT ![j] =
          NewExecution([IdleJob EXCEPT !.user_id = t, !.queue_type = "background"])]
    /\ UNCHANGED <<clock, user_credentials, scraping_errors, notification_dedup,
                   scrape_history, resetting, failed_runs,
                   units>>

\* ------------------------------------------------- execute_scrape_task
\* tasks.py lines 151-160: the credentials row is read
FetchCredentials(j) ==
    LET r == job[j] IN
    /\ r.pc = "fetch"
    /\ IF user_credentials[r.user_id].exists
       THEN /\ job' = [job EXCEPT ![j] = [r EXCEPT !.pc = "check_suspended"]]
            /\ UNCHANGED failed_runs
       ELSE /\ job' = [job EXCEPT ![j] =
                  [r EXCEPT !.pc = "task_except", !.exc = "no_credentials"]]
            /\ CountFailedRun(r.user_id)
    /\ UNCHANGED <<clock, user_credentials, scraping_errors, notification_dedup,
                   scrape_history, resetting,
                   units>>

\* The suspension check made after the driver was started
is_scraping_suspended_after_driver(j) ==
    LET r == job[j] IN
    /\ r.pc = "check_suspended"
    /\ job' = [job EXCEPT ![j] =
          IF user_credentials[r.user_id].scraping_suspended
          THEN [r EXCEPT !.pc = "done", !.result = "SUSPENDED", !.driver = "closed"]
          ELSE [r EXCEPT !.pc = "driver"]]
    /\ UNCHANGED <<clock, user_credentials, scraping_errors, notification_dedup,
                   scrape_history, resetting, failed_runs,
                   units>>

\* enhanced_scraper.py lines 36-43 with ErrorTracker.is_scraping_suspended,
\* and tasks.py lines 177-180
is_scraping_suspended(j) ==
    LET r == job[j] IN
    /\ r.pc = "check_suspended"
    /\ job' = [job EXCEPT ![j] =
          IF user_credentials[r.user_id].scraping_suspended
          THEN [r EXCEPT !.pc = "done", !.result = "SUSPENDED"]
          ELSE [r EXCEPT !.pc = "driver"]]
    /\ UNCHANGED <<clock, user_credentials, scraping_errors, notification_dedup,
                   scrape_history, resetting, failed_runs,
                   units>>

\* _initialize_driver_with_tracking: the driver comes up, or the last
\* attempt fails and the failure is tracked as DRIVER_ERROR
initialize_driver(j, ok) ==
    LET r == job[j] IN
    /\ r.pc = "driver"
    /\ IF ok
       THEN /\ job' = [job EXCEPT ![j] = [r EXCEPT !.pc = "login", !.driver = "open"]]
            /\ UNCHANGED failed_runs
       ELSE /\ job' = [job EXCEPT ![j] =
                  StartLogError([r EXCEPT !.exc = "driver_init"], "driver", "driver_error")]
            /\ CountFailedRun(r.user_id)
    /\ UNCHANGED <<clock, user_credentials, scraping_errors, notification_dedup,
                   scrape_history, resetting,
                   units>>

\* _login_with_tracking: login returns, or raises e and the except clause
\* classifies it (lines 123-134)
login(j, e) ==
    LET r == job[j] IN
    /\ r.pc = "login"
    /\ IF e = None
       THEN /\ job' = [job EXCEPT ![j] = [r EXCEPT !.pc = "page", !.k = 1]]
            /\ UNCHANGED failed_runs
       ELSE /\ job' = [job EXCEPT ![j] =
                  StartLogError([r EXCEPT !.exc = e, !.classified = TRUE], "login",
                      detect_error_type(Exceptions[e].kw, Exceptions[e].page))]
            /\ CountFailedRun(r.user_id)
    /\ UNCHANGED <<clock, user_credentials, scraping_errors, notification_dedup,
                   scrape_history, resetting,
                   units>>

\* _scrape_all_pages_with_tracking, one iteration of the loop
PageOutcomes == {"ok", "nav_failed", "session_invalid", "scrape_error", "session_error"}

scrape_page(j, outcome) ==
    LET r == job[j] IN
    /\ r.pc = "page"
    /\ job' = [job EXCEPT ![j] =
          CASE outcome \in {"ok", "scrape_error"} -> NextPage(r)
            [] outcome = "nav_failed" -> StartLogError(r, "page", "page_load_failed")
            [] outcome = "session_invalid" -> StartLogError(r, "page_inner", "session_expired")
            [] outcome = "session_error" -> StartLogError(r, "page_break", "session_expired")]
    /\ UNCHANGED <<clock, user_credentials, scraping_errors, notification_dedup,
                   scrape_history, resetting, failed_runs,
                   units>>

\* ErrorTracker.log_error line 66: the read of the most recent row
log_error_read(j) ==
    LET r == job[j] IN
    /\ r.pc = "le_read"
    /\ job' = [job EXCEPT ![j] =
          [r EXCEPT !.current_count = get_consecutive_failure_count(r.user_id),
                    !.pc = "le_insert"]]
    /\ UNCHANGED <<clock, user_credentials, scraping_errors, notification_dedup,
                   scrape_history, resetting, failed_runs,
                   units>>

\* A log_error that reads the count and inserts the row in one statement
log_error_insert_atomic(j) ==
    LET r == job[j]
        n == new_count(get_consecutive_failure_count(r.user_id))
        q == [r EXCEPT !.should_suspend = should_suspend_at(n),
                       !.current_count = 0, !.n_events = r.n_events + 1,
                       !.alert_at = LatestAlert(r.user_id)]
    IN
    /\ r.pc = "le_insert"
    /\ scraping_errors' = [scraping_errors EXCEPT
          ![r.user_id] = error_data(r.error_type, n)]
    /\ job' = [job EXCEPT ![j] =
          IF q.should_suspend THEN [q EXCEPT !.pc = "le_suspend"]
          ELSE AfterLogError(q)]
    /\ UNCHANGED <<clock, user_credentials, notification_dedup, scrape_history,
                   resetting, failed_runs,
                   units>>

\* ErrorTracker.log_error lines 67-86: the insert of the new row
log_error_insert(j) ==
    LET r == job[j]
        n == new_count(r.current_count)
        q == [r EXCEPT !.should_suspend = should_suspend_at(n),
                       !.current_count = 0, !.n_events = r.n_events + 1,
                       !.alert_at = LatestAlert(r.user_id)]
    IN
    /\ r.pc = "le_insert"
    /\ scraping_errors' = [scraping_errors EXCEPT
          ![r.user_id] = error_data(r.error_type, n)]
    /\ job' = [job EXCEPT ![j] =
          IF q.should_suspend THEN [q EXCEPT !.pc = "le_suspend"]
          ELSE AfterLogError(q)]
    /\ UNCHANGED <<clock, user_credentials, notification_dedup, scrape_history,
                   resetting, failed_runs,
                   units>>

\* ErrorTracker.log_error lines 97-99 with _suspend_auto_scraping
suspend_auto_scraping(j) ==
    LET r == job[j] IN
    /\ r.pc = "le_suspend"
    /\ user_credentials' = [user_credentials EXCEPT
          ![r.user_id] = suspended_row(@, clock)]
    /\ job' = [job EXCEPT ![j] = AfterLogError(r)]
    /\ UNCHANGED <<clock, scraping_errors, notification_dedup, scrape_history,
                   resetting, failed_runs,
                   units>>

\* NotificationDeduplicator.should_send_notification lines 37-48: the select
should_send_select(j) ==
    LET r == job[j]
        id == notification_id(r.user_id, r.ntype, content_hash(r))
    IN
    /\ r.pc = "dd_select"
    /\ job' = [job EXCEPT ![j] =
          IF recent_rows(id, clock) # {} THEN AfterNotify(r, FALSE)
          ELSE [r EXCEPT !.pc = "dd_insert"]]
    /\ UNCHANGED <<clock, user_credentials, scraping_errors, notification_dedup,
                   scrape_history, resetting, failed_runs,
                   units>>

\* should_send_notification lines 51-59: the insert; the caller then
\* delivers the notification to the channels
should_send_insert(j) ==
    LET r == job[j]
        id == notification_id(r.user_id, r.ntype, content_hash(r))
    IN
    /\ r.pc = "dd_insert"
    /\ notification_dedup' = notification_dedup \cup
          {[notification_id |-> id, sent_at |-> clock, by |-> j,
            prior |-> IF r.ntype = "suspension" THEN r.alert_at ELSE -1]}
    /\ job' = [job EXCEPT ![j] = AfterNotify(r, TRUE)]
    /\ UNCHANGED <<clock, user_credentials, scraping_errors, scrape_history,
                   resetting, failed_runs,
                   units>>

\* The except clause answering False: a store failure drops the notification.
should_send_raises_closed(j) ==
    LET r == job[j] IN
    /\ r.pc \in {"dd_select", "dd_insert"}
    /\ job' = [job EXCEPT ![j] = AfterNotify([r EXCEPT !.exc = "store_error"], FALSE)]
    /\ UNCHANGED <<clock, user_credentials, scraping_errors, notification_dedup,
                   scrape_history, resetting, failed_runs,
                   units>>

\* should_send_notification lines 61-64: the store raises on the select or
\* on the insert; the except clause logs and returns True
should_send_raises(j) ==
    LET r == job[j] IN
    /\ r.pc \in {"dd_select", "dd_insert"}
    /\ job' = [job EXCEPT ![j] =
          AfterNotify([r EXCEPT !.exc = IF r.ctx = "call" THEN "store_error" ELSE @],
                      TRUE)]
    /\ UNCHANGED <<clock, user_credentials, scraping_errors, notification_dedup,
                   scrape_history, resetting, failed_runs,
                   units>>

\* log_success re-enabling the tenant without inserting its row
log_success_insert_no_row(j) ==
    LET r == job[j] IN
    /\ r.pc = "ls_insert"
    /\ job' = [job EXCEPT ![j] = [r EXCEPT !.pc = "ls_read"]]
    /\ UNCHANGED <<clock, user_credentials, scraping_errors, notification_dedup,
                   scrape_history, resetting, failed_runs,
                   units>>

\* ErrorTracker.log_success lines 112-119: the insert of the success row
log_success_insert(j) ==
    LET r == job[j] IN
    /\ r.pc = "ls_insert"
    /\ scraping_errors' = [scraping_errors EXCEPT ![r.user_id] = success_data]
    /\ failed_runs' = [failed_runs EXCEPT ![r.user_id] = 0]
    /\ job' = [job EXCEPT ![j] = [r EXCEPT !.pc = "ls_read"]]
    /\ UNCHANGED <<clock, user_credentials, notification_dedup, scrape_history,
                   resetting,
                   units>>

\* _enable_auto_scraping lines 186-190: the read of scraping_suspended; the
\* scraper then returns "success" and releases the driver
enable_auto_scraping_read(j) ==
    LET r == job[j] IN
    /\ r.pc = "ls_read"
    /\ job' = [job EXCEPT ![j] =
          IF user_credentials[r.user_id].scraping_suspended
          THEN [r EXCEPT !.pc = "ls_update"]
          ELSE [r EXCEPT !.pc = "post", !.driver = "closed"]]
    /\ UNCHANGED <<clock, user_credentials, scraping_errors, notification_dedup,
                   scrape_history, resetting, failed_runs,
                   units>>

\* _enable_auto_scraping lines 191-196: the update
enable_auto_scraping_update(j) ==
    LET r == job[j] IN
    /\ r.pc = "ls_update"
    /\ user_credentials' = [user_credentials EXCEPT ![r.user_id] = enabled_row(@)]
    /\ job' = [job EXCEPT ![j] = [r EXCEPT !.pc = "post", !.driver = "closed"]]
    /\ UNCHANGED <<clock, scraping_errors, notification_dedup, scrape_history,
                   resetting, failed_runs,
                   units>>

\* tasks.py lines 182-232: diff, notify and the insert of the success
\* record; ok = FALSE is a statement of this part raising
persist(j, ok) ==
    LET r == job[j] IN
    /\ r.pc = "post"
    /\ IF ok
       THEN /\ scrape_history' = [scrape_history EXCEPT ![r.user_id] =
                  [last |-> "success", has_success |-> TRUE]]
            /\ job' = [job EXCEPT ![j] =
                  [r EXCEPT !.pc = "done", !.result = "SUCCESS",
                            !.n_records = r.n_records + 1]]
            /\ UNCHANGED failed_runs
       ELSE /\ job' = [job EXCEPT ![j] =
                  [r EXCEPT !.pc = "task_except", !.exc = "persist"]]
            /\ CountFailedRun(r.user_id)
            /\ UNCHANGED scrape_history
    /\ UNCHANGED <<clock, user_credentials, scraping_errors, notification_dedup,
                   resetting,
                   units>>

\* A queue that redelivers a failed message however often it has failed
task_except_unbounded(j) ==
    LET r == job[j] IN
    /\ r.pc = "task_except"
    /\ scrape_history' = [scrape_history EXCEPT ![r.user_id] =
          [@ EXCEPT !.last = "FAILED"]]
    /\ job' = [job EXCEPT ![j] =
          [r EXCEPT !.pc = "retry", !.n_records = r.n_records + 1,
                    !.result = "RETRY", !.eta = clock + countdown]]
    /\ UNCHANGED <<clock, user_credentials, scraping_errors, notification_dedup,
                   resetting, failed_runs,
                   units>>

\* tasks.py lines 234-245: the FAILED record, and the exception is raised
\* to the queue, which retries at most max_retries times after countdown
task_except(j) ==
    LET r == job[j] IN
    /\ r.pc = "task_except"
    /\ scrape_history' = [scrape_history EXCEPT ![r.user_id] =
          [@ EXCEPT !.last = "FAILED"]]
    /\ job' = [job EXCEPT ![j] =
          IF r.retries < max_retries
          THEN [r EXCEPT !.pc = "retry", !.n_records = r.n_records + 1,
                         !.result = "RETRY", !.eta = clock + countdown]
          ELSE [r EXCEPT !.pc = "done", !.n_records = r.n_records + 1,
                         !.result = "FAILURE"]]
    /\ UNCHANGED <<clock, user_credentials, scraping_errors, notification_dedup,
                   resetting, failed_runs,
                   units>>

\* The queue runs the task again
retry(j) ==
    LET r == job[j] IN
    /\ r.pc = "retry"
    /\ clock >= r.eta
    /\ job' = [job EXCEPT ![j] = NewExecution([r EXCEPT !.retries = r.retries + 1])]
    /\ UNCHANGED <<clock, user_credentials, scraping_errors, notification_dedup,
                   scrape_history, resetting, failed_runs,
                   units>>

\* The task has returned; the worker takes the next message
finish(j) ==
    /\ job[j].pc = "done"
    /\ job' = [job EXCEPT ![j] = IdleJob]
    /\ UNCHANGED <<clock, user_credentials, scraping_errors, notification_dedup,
                   scrape_history, resetting, failed_runs,
                   units>>

\* One worker, every input: the executor, the circuit breaker and the
\* deduplicator against the API handlers and the clock.
Next ==
    \/ Tick
    \/ \E t \in Tenants, a \in {"true", "false", "unset"} : update_user_settings(t, a)
    \/ \E t \in Tenants : reset_suspension_update(t)
    \/ \E t \in Tenants : reset_suspension_insert(t)
    \/ \E j \in Worker, t \in Tenants : run_manual_scrape(j, t)
    \/ \E j \in Worker, t \in Tenants : queue_all_users_scrape(j, t)
    \/ \E j \in Worker : FetchCredentials(j)
    \/ \E j \in Worker : is_scraping_suspended(j)
    \/ \E j \in Worker, ok \in BOOLEAN : initialize_driver(j, ok)
    \/ \E j \in Worker, e \in LoginExceptions \cup {None} : login(j, e)
    \/ \E j \in Worker, o \in PageOutcomes : scrape_page(j, o)
    \/ \E j \in Worker : log_error_read(j)
    \/ \E j \in Worker : log_error_insert(j)
    \/ \E j \in Worker : suspend_auto_scraping(j)
    \/ \E j \in Worker : should_send_select(j)
    \/ \E j \in Worker : should_send_insert(j)
    \/ \E j \in Worker : log_success_insert(j)
    \/ \E j \in Worker : enable_auto_scraping_read(j)
    \/ \E j \in Worker : enable_auto_scraping_update(j)
    \/ \E j \in Worker, ok \in BOOLEAN : persist(j, ok)
    \/ \E j \in Worker : task_except(j)
    \/ \E j \in Worker : retry(j)
    \/ \E j \in Worker : finish(j)

Spec == Init /\ [][Next]_vars

\* Two workers (the manual and the background lane) on the jobs of tenants
\* that have saved their settings with automation on; the portal either
\* lets the login through or rejects the CAPTCHA, and every page loads.
InitRace ==
    /\ clock = 0
    /\ user_credentials = [t \in Tenants |->
          [NoCredentials EXCEPT !.exists = TRUE, !.is_automation_active = TRUE]]
    /\ scraping_errors = [t \in Tenants |-> NoRow]
    /\ notification_dedup = {}
    /\ scrape_history = [t \in Tenants |-> [last |-> None, has_success |-> FALSE]]
    /\ job = [j \in Jobs |-> IdleJob]
    /\ resetting = [t \in Tenants |-> FALSE]
    /\ UnitsIdle
    /\ failed_runs = [t \in Tenants |-> 0]

NextRace ==
    \/ Tick
    \/ \E j \in Jobs, t \in Tenants : run_manual_scrape(j, t)
    \/ \E j \in Jobs, t \in Tenants : queue_all_users_scrape(j, t)
    \/ \E j \in Jobs : FetchCredentials(j)
    \/ \E j \in Jobs : is_scraping_suspended(j)
    \/ \E j \in Jobs : initialize_driver(j, TRUE)
    \/ \E j \in Jobs, e \in {"max_login_captcha", None} : login(j, e)
    \/ \E j \in Jobs : scrape_page(j, "ok")
    \/ \E j \in Jobs : log_error_read(j)
    \/ \E j \in Jobs : log_error_insert(j)
    \/ \E j \in Jobs : suspend_auto_scraping(j)
    \/ \E j \in Jobs : should_send_select(j)
    \/ \E j \in Jobs : should_send_insert(j)
    \/ \E j \in Jobs : log_success_insert(j)
    \/ \E j \in Jobs : enable_auto_scraping_read(j)
    \/ \E j \in Jobs : enable_auto_scraping_update(j)
    \/ \E j \in Jobs : persist(j, TRUE)
    \/ \E j \in Jobs : task_except(j)
    \/ \E j \in Jobs : retry(j)
    \/ \E j \in Jobs : finish(j)

SpecRace == InitRace /\ [][NextRace]_vars

\* One worker on the jobs of a tenant whose logins and pages may fail, with a
\* notification_dedup store that may raise on any statement.
NextAlerts ==
    \/ Tick
    \/ \E j \in Worker, t \in Tenants : run_manual_scrape(j, t)
    \/ \E j \in Worker : FetchCredentials(j)
    \/ \E j \in Worker : is_scraping_suspended(j)
    \/ \E j \in Worker : initialize_driver(j, TRUE)
    \/ \E j \in Worker, e \in LoginExceptions \cup {None} : login(j, e)
    \/ \E j \in Worker, o \in PageOutcomes : scrape_page(j, o)
    \/ \E j \in Worker : log_error_read(j)
    \/ \E j \in Worker : log_error_insert(j)
    \/ \E j \in Worker : suspend_auto_scraping(j)
    \/ \E j \in Worker : should_send_select(j)
    \/ \E j \in Worker : should_send_insert(j)
    \/ \E j \in Worker : should_send_raises(j)
    \/ \E j \in Worker : log_success_insert(j)
    \/ \E j \in Worker : enable_auto_scraping_read(j)
    \/ \E j \in Worker : enable_auto_scraping_update(j)
    \/ \E j \in Worker : persist(j, TRUE)
    \/ \E j \in Worker : task_except(j)
    \/ \E j \in Worker : retry(j)
    \/ \E j \in Worker : finish(j)

SpecAlerts == InitRace /\ [][NextAlerts]_vars

\* One enqueued message through its executions: tasks.py line 132 binds the
\* task with autoretry_for=(Exception,), max_retries 2 and countdown 60, so
\* the worker runs every step of an execution it has started and the queue
\* redelivers a failed one once its countdown has passed.
JobStep(j) ==
    \/ FetchCredentials(j)
    \/ is_scraping_suspended(j)
    \/ \E ok \in BOOLEAN : initialize_driver(j, ok)
    \/ \E e \in LoginExceptions \cup {None} : login(j, e)
    \/ \E o \in PageOutcomes : scrape_page(j, o)
    \/ log_error_read(j)
    \/ log_error_insert(j)
    \/ suspend_auto_scraping(j)
    \/ should_send_select(j)
    \/ should_send_insert(j)
    \/ log_success_insert(j)
    \/ enable_auto_scraping_read(j)
    \/ enable_auto_scraping_update(j)
    \/ \E ok \in BOOLEAN : persist(j, ok)
    \/ task_except(j)
    \/ retry(j)
    \/ finish(j)

NextRetry ==
    \/ Tick
    \/ \E j \in Worker, t \in Tenants : run_manual_scrape(j, t)
    \/ \E j \in Worker, t \in Tenants : queue_all_users_scrape(j, t)
    \/ \E j \in Worker : JobStep(j)

\* The worker does not stall inside an execution and time passes.
SpecRetry ==
    /\ Init
    /\ [][NextRetry]_vars
    /\ WF_vars(Tick)
    /\ \A j \in Worker : WF_vars(JobStep(j))

\* ------------------------------------- the deduplicator on its own
\* notification_deduplicator.py lines 93-99: the module's function, called
\* by two workers for any user, type and content.
DedupUsers == {"t1", "t2"}
DedupTypes == {"error"}
DedupContents == {"c1"}

should_send_notification(j, user_id, notification_type, content) ==
    /\ job[j].pc = "idle"
    /\ job' = [job EXCEPT ![j] =
          [IdleJob EXCEPT !.user_id = user_id, !.ctx = "call",
                          !.ntype = notification_type, !.content = content,
                          !.pc = "dd_select"]]
    /\ UNCHANGED <<clock, user_credentials, scraping_errors, notification_dedup,
                   scrape_history, resetting, failed_runs,
                   units>>

\* The deduplicator on its own starts from empty tables.
InitDedup ==
    /\ clock = 0
    /\ user_credentials = [t \in Tenants |-> NoCredentials]
    /\ scraping_errors = [t \in Tenants |-> NoRow]
    /\ notification_dedup = {}
    /\ scrape_history = [t \in Tenants |-> [last |-> None, has_success |-> FALSE]]
    /\ job = [j \in Jobs |-> IdleJob]
    /\ resetting = [t \in Tenants |-> FALSE]
    /\ UnitsIdle
    /\ failed_runs = [t \in Tenants |-> 0]

NextDedup ==
    \/ Minute
    \/ \E j \in Jobs, u \in DedupUsers, n \in DedupTypes, c \in DedupContents :
          should_send_notification(j, u, n, c)
    \/ \E j \in Jobs : should_send_select(j)
    \/ \E j \in Jobs : should_send_insert(j)
    \/ \E j \in Jobs : finish(j)

SpecDedup == InitDedup /\ [][NextDedup]_vars

\* The deduplicator against a store that may raise on any statement.
NextDedupStore ==
    \/ NextDedup
    \/ \E j \in Jobs : should_send_raises(j)

SpecDedupStore == InitDedup /\ [][NextDedupStore]_vars

\* ===================================================== the change detector
\* Strings are sequences of characters, so that the identifiers
\* compare_and_notify builds by formatting are computed, not assumed.
Hyphen == <<"-">>
StrA == <<"a">>
StrB == <<"b">>
StrAA == <<"a", "-", "a">>

\* Items a page scraper returns; an assignment or quiz has a course and a
\* name, an absence a course, a date and a type, a course offering a name.
AssignmentItems ==
    {[course |-> StrA, name |-> StrB],
     [course |-> StrA, name |-> StrAA],
     [course |-> StrAA, name |-> StrA]}
QuizItems == {[course |-> StrA, name |-> StrB]}
AbsenceItems == {[course |-> StrA, date |-> StrB, type |-> StrA]}
CourseItems == {[name |-> StrA]}

ListsUpTo(S, n) == UNION {[1..k -> S] : k \in 0..n}

\* scraped_data as run_scrape_with_error_tracking returns it (line 45):
\* every category is present; a page that failed holds no list, which
\* .get(..., []) reads as the empty list.
Snapshots ==
    [quizzes : [quizzes_with_results : ListsUpTo(QuizItems, 1),
                quizzes_without_results : ListsUpTo(QuizItems, 1)],
     assignments : ListsUpTo(AssignmentItems, MaxItems),
     absences : ListsUpTo(AbsenceItems, 1),
     course_registration : ListsUpTo(CourseItems, 1)]

\* execute_scrape_task line 186: last_data when no successful record exists
NoSnapshot ==
    [quizzes |-> [quizzes_with_results |-> <<>>, quizzes_without_results |-> <<>>],
     assignments |-> <<>>, absences |-> <<>>, course_registration |-> <<>>]

\* tasks.py lines 66, 69, 80, 83, 94, 97: f"{course}-{name}"
course_name_id(x) == x.course \o Hyphen \o x.name

\* tasks.py lines 108, 111: f"{course}-{date}-{type}"
absence_id(x) == x.course \o Hyphen \o x.date \o Hyphen \o x.type

\* The loops keyed by course and name (lines 66-72, 80-86, 94-100): the
\* items of the new list whose identifier is not among the old identifiers
items_not_in(old_list, new_list) ==
    LET old_ids == {course_name_id(old_list[i]) : i \in 1..Len(old_list)}
        keep(x) == course_name_id(x) \notin old_ids
    IN SelectSeq(new_list, keep)

\* The loop of the absences (lines 108-114), keyed by course, date and type
absences_not_in(old_list, new_list) ==
    LET old_ids == {absence_id(old_list[i]) : i \in 1..Len(old_list)}
        keep(x) == absence_id(x) \notin old_ids
    IN SelectSeq(new_list, keep)

\* The two quiz lists compared crosswise: the graded quizzes against the
\* ungraded ones of the previous snapshot and the reverse.
compare_and_notify_crossed(last_data, new_data) ==
    LET new_items ==
          [quizzes_with_results |->
              items_not_in(last_data.quizzes.quizzes_without_results,
                           new_data.quizzes.quizzes_with_results),
           quizzes_without_results |->
              items_not_in(last_data.quizzes.quizzes_with_results,
                           new_data.quizzes.quizzes_without_results),
           assignments |->
              items_not_in(last_data.assignments, new_data.assignments),
           absences |->
              absences_not_in(last_data.absences, new_data.absences)]
        new_items_count ==
              Len(new_items.quizzes_with_results)
            + Len(new_items.quizzes_without_results)
            + Len(new_items.assignments) + Len(new_items.absences)
    IN [new_items |-> new_items,
        new_items_count |-> new_items_count,
        sent |-> IF new_items_count > 0 THEN "new_items" ELSE None]

\* tasks.py compare_and_notify, lines 52-123
compare_and_notify(last_data, new_data) ==
    LET new_items ==
          [quizzes_with_results |->
              items_not_in(last_data.quizzes.quizzes_with_results,
                           new_data.quizzes.quizzes_with_results),
           quizzes_without_results |->
              items_not_in(last_data.quizzes.quizzes_without_results,
                           new_data.quizzes.quizzes_without_results),
           assignments |->
              items_not_in(last_data.assignments, new_data.assignments),
           absences |->
              absences_not_in(last_data.absences, new_data.absences)]
        new_items_count ==
              Len(new_items.quizzes_with_results)
            + Len(new_items.quizzes_without_results)
            + Len(new_items.assignments) + Len(new_items.absences)
    IN [new_items |-> new_items,
        new_items_count |-> new_items_count,
        sent |-> IF new_items_count > 0 THEN "new_items" ELSE None]

\* tasks.py send_first_scan_notification, lines 24-41
send_first_scan_notification(scraped_data) ==
    [new_items |-> None,
     new_items_count |->
          Len(scraped_data.quizzes.quizzes_with_results)
        + Len(scraped_data.quizzes.quizzes_without_results)
        + Len(scraped_data.assignments) + Len(scraped_data.absences),
     sent |-> "first_scrape"]

\* execute_scrape_task lines 198-204: no successful record yet
first_scan ==
    /\ diff.pc = "analyze"
    /\ ~diff.has_last
    /\ diff' = [diff EXCEPT !.pc = "done",
                            !.out = send_first_scan_notification(diff.new_data)]
    /\ UNCHANGED <<core, captcha, sched, dispatch, remind, scraper, agg>>

\* execute_scrape_task lines 205-210: compared with the last successful one
subsequent_scan ==
    /\ diff.pc = "analyze"
    /\ diff.has_last
    /\ diff' = [diff EXCEPT !.pc = "done",
                            !.out = compare_and_notify(diff.last_data, diff.new_data)]
    /\ UNCHANGED <<core, captcha, sched, dispatch, remind, scraper, agg>>

\* The executor has a new snapshot, and the last successful snapshot of
\* the tenant if there is one.
InitDiff ==
    /\ remind = NoRemind
    /\ scraper = NoScraper
    /\ agg = NoAgg
    /\ clock = 0
    /\ user_credentials = [t \in Tenants |-> NoCredentials]
    /\ scraping_errors = [t \in Tenants |-> NoRow]
    /\ notification_dedup = {}
    /\ scrape_history = [t \in Tenants |-> [last |-> None, has_success |-> FALSE]]
    /\ job = [j \in Jobs |-> IdleJob]
    /\ resetting = [t \in Tenants |-> FALSE]
    /\ failed_runs = [t \in Tenants |-> 0]
    /\ \E has_last \in BOOLEAN, l \in Snapshots, n \in Snapshots :
          /\ has_last \/ l = NoSnapshot
          /\ diff = [pc |-> "analyze", has_last |-> has_last, last_data |-> l,
                     new_data |-> n, out |-> None]
    /\ captcha = NoCaptcha
    /\ sched = NoSched
    /\ dispatch = NoDispatch

NextDiff ==
    \/ first_scan
    \/ subsequent_scan

SpecDiff == InitDiff /\ [][NextDiff]_vars

\* ------------------------------------ successive runs against one portal
MaxScans == 3
Categories == {"quizzes", "assignments", "absences", "course_registration"}

\* _scrape_all_pages_with_tracking lines 184-201: a page that was scraped
\* holds its lists; a page that failed holds {"error": ...} and a page not
\* reached after the break of line 211 holds {} (line 45), both without a
\* list
scraped_pages(portal, failed) ==
    [quizzes |-> IF "quizzes" \in failed
                 THEN [quizzes_with_results |-> <<>>, quizzes_without_results |-> <<>>]
                 ELSE portal.quizzes,
     assignments |-> IF "assignments" \in failed THEN <<>> ELSE portal.assignments,
     absences |-> IF "absences" \in failed THEN <<>> ELSE portal.absences,
     course_registration |->
          IF "course_registration" \in failed THEN <<>> ELSE portal.course_registration]

\* The items a notification names, by category
items_of(lists) ==
      {<<"quizzes_with_results", lists.quizzes_with_results[i]>> :
           i \in 1..Len(lists.quizzes_with_results)}
    \cup {<<"quizzes_without_results", lists.quizzes_without_results[i]>> :
           i \in 1..Len(lists.quizzes_without_results)}
    \cup {<<"assignments", lists.assignments[i]>> : i \in 1..Len(lists.assignments)}
    \cup {<<"absences", lists.absences[i]>> : i \in 1..Len(lists.absences)}

\* execute_scrape_task lines 186-222 of a run that the scraper returned as
\* a success, with the pages of failed not scraped: the first-scan summary
\* or the comparison with the last successful record, then the insert of
\* the new record with the scraped data as they are
run_success(failed) ==
    /\ diff.pc = "portal"
    /\ diff.scans < MaxScans
    /\ LET new_data == scraped_pages(diff.portal, failed)
           named == IF diff.has_last
                    THEN items_of(compare_and_notify(diff.last_data, new_data).new_items)
                    ELSE items_of([quizzes_with_results |->
                                       new_data.quizzes.quizzes_with_results,
                                   quizzes_without_results |->
                                       new_data.quizzes.quizzes_without_results,
                                   assignments |-> new_data.assignments,
                                   absences |-> new_data.absences])
       IN diff' = [diff EXCEPT !.has_last = TRUE, !.last_data = new_data,
                               !.scans = @ + 1, !.named = named,
                               !.again = named \cap diff.notified,
                               !.notified = @ \cup named]
    /\ UNCHANGED <<core, captcha, sched, dispatch, remind, scraper, agg>>

\* A tenant without a successful record and a portal whose content stays
InitRuns ==
    /\ clock = 0
    /\ user_credentials = [t \in Tenants |-> NoCredentials]
    /\ scraping_errors = [t \in Tenants |-> NoRow]
    /\ notification_dedup = {}
    /\ scrape_history = [t \in Tenants |-> [last |-> None, has_success |-> FALSE]]
    /\ job = [j \in Jobs |-> IdleJob]
    /\ resetting = [t \in Tenants |-> FALSE]
    /\ failed_runs = [t \in Tenants |-> 0]
    /\ captcha = NoCaptcha
    /\ sched = NoSched
    /\ dispatch = NoDispatch
    /\ remind = NoRemind
    /\ scraper = NoScraper
    /\ agg = NoAgg
    /\ \E portal \in Snapshots :
          diff = [pc |-> "portal", portal |-> portal, has_last |-> FALSE,
                  last_data |-> NoSnapshot, scans |-> 0, named |-> {},
                  again |-> {}, notified |-> {}]

NextRuns == \E failed \in SUBSET Categories : run_success(failed)

SpecRuns == InitRuns /\ [][NextRuns]_vars

\* ------------------------------------------- the first jobs of a tenant
\* execute_scrape_task lines 198-245 statement by statement, for one job
\* on each lane of a tenant that has no successful record yet.
Lanes == {"manual", "background"}

\* run_manual_scrape / queue_all_users_scrape: the lane's job is queued
enqueue_first(l) ==
    /\ diff.pc = "first"
    /\ diff.jobs[l].pc = "idle"
    /\ diff' = [diff EXCEPT !.jobs[l].pc = "select"]
    /\ UNCHANGED <<core, captcha, sched, dispatch, remind, scraper, agg>>

\* tasks.py line 199: the most recent successful record is selected
select_last_scrape(l) ==
    /\ diff.pc = "first"
    /\ diff.jobs[l].pc = "select"
    /\ diff' = [diff EXCEPT !.jobs[l].pc = "notify",
                            !.jobs[l].first = ~diff.has_success]
    /\ UNCHANGED <<core, captcha, sched, dispatch, remind, scraper, agg>>

\* tasks.py lines 201-210: send_first_scan_notification, which calls
\* send_first_scrape_confirmation (unified_notifier.py 101-173, sent to
\* every channel without a deduplicator), or compare_and_notify
notify_scan(l) ==
    /\ diff.pc = "first"
    /\ diff.jobs[l].pc = "notify"
    /\ diff' = [diff EXCEPT !.jobs[l].pc = "insert",
                            !.summaries = IF diff.jobs[l].first THEN @ + 1 ELSE @]
    /\ UNCHANGED <<core, captcha, sched, dispatch, remind, scraper, agg>>

\* tasks.py lines 216-222: the insert of the success record; when it
\* raises, lines 234-245 write the FAILED record and re-raise, and the
\* queue runs the job again while retries are left
insert_scrape_history(l, ok) ==
    /\ diff.pc = "first"
    /\ diff.jobs[l].pc = "insert"
    /\ diff' =
          IF ok THEN [diff EXCEPT !.jobs[l].pc = "done", !.has_success = TRUE]
          ELSE IF diff.jobs[l].retries < max_retries
          THEN [diff EXCEPT !.jobs[l].pc = "select", !.jobs[l].retries = @ + 1]
          ELSE [diff EXCEPT !.jobs[l].pc = "failed"]
    /\ UNCHANGED <<core, captcha, sched, dispatch, remind, scraper, agg>>

InitFirst ==
    /\ clock = 0
    /\ user_credentials = [t \in Tenants |-> NoCredentials]
    /\ scraping_errors = [t \in Tenants |-> NoRow]
    /\ notification_dedup = {}
    /\ scrape_history = [t \in Tenants |-> [last |-> None, has_success |-> FALSE]]
    /\ job = [j \in Jobs |-> IdleJob]
    /\ resetting = [t \in Tenants |-> FALSE]
    /\ failed_runs = [t \in Tenants |-> 0]
    /\ captcha = NoCaptcha
    /\ sched = NoSched
    /\ dispatch = NoDispatch
    /\ remind = NoRemind
    /\ scraper = NoScraper
    /\ agg = NoAgg
    /\ diff = [pc |-> "first", has_success |-> FALSE, summaries |-> 0,
               jobs |-> [l \in Lanes |->
                           [pc |-> "idle", retries |-> 0, first |-> FALSE]]]

NextFirst ==
    \/ \E l \in Lanes : enqueue_first(l)
    \/ \E l \in Lanes : select_last_scrape(l)
    \/ \E l \in Lanes : notify_scan(l)
    \/ \E l \in Lanes, ok \in BOOLEAN : insert_scrape_history(l, ok)

SpecFirst == InitFirst /\ [][NextFirst]_vars

\* --------------------------------------- suspension and resumption of a tenant
\* One tenant's user_credentials row and failure count, with a job on each
\* lane.  before is a history field: the automation flag the row held when
\* _suspend_auto_scraping last turned a not-suspended row into a suspended one.
post_settings(active) ==
    /\ dispatch.pc = "resume"
    /\ dispatch' = [dispatch EXCEPT !.cred.exists = TRUE,
                                    !.cred.is_automation_active = active]
    /\ UNCHANGED <<core, diff, captcha, sched, remind, scraper, agg>>

\* run_manual_scrape (any tenant) / queue_all_users_scrape (tenants with
\* automation on) start a job; enhanced_scraper.py lines 36-43 let it run
\* only when the tenant is not suspended
begin_scrape(l) ==
    /\ dispatch.pc = "resume"
    /\ dispatch.cred.exists
    /\ dispatch.jobs[l] = "idle"
    /\ l = "background" => dispatch.cred.is_automation_active
    /\ ~dispatch.cred.scraping_suspended
    /\ dispatch' = [dispatch EXCEPT !.jobs[l] = "running"]
    /\ UNCHANGED <<core, diff, captcha, sched, remind, scraper, agg>>

\* ErrorTracker.log_error, lines 58-93, at the end of a failing job
log_error(l) ==
    /\ dispatch.pc = "resume"
    /\ dispatch.jobs[l] = "running"
    /\ LET count == new_count(dispatch.count)
       IN  dispatch' =
             [dispatch EXCEPT
                !.jobs[l] = "idle",
                !.count = count,
                !.cred = IF should_suspend_at(count)
                         THEN suspended_row(@, 0) ELSE @,
                !.before = IF /\ should_suspend_at(count)
                              /\ ~dispatch.cred.scraping_suspended
                           THEN dispatch.cred.is_automation_active ELSE @]
    /\ UNCHANGED <<core, diff, captcha, sched, remind, scraper, agg>>

\* ErrorTracker.log_success, lines 108-122, with _enable_auto_scraping,
\* lines 182-199, at the end of a successful job
log_success(l) ==
    /\ dispatch.pc = "resume"
    /\ dispatch.jobs[l] = "running"
    /\ dispatch' =
          [dispatch EXCEPT
             !.jobs[l] = "idle",
             !.count = 0,
             !.cred = IF @.scraping_suspended THEN enabled_row(@) ELSE @]
    /\ UNCHANGED <<core, diff, captcha, sched, remind, scraper, agg>>

\* api/error_tracking.py reset_suspension, lines 94-118: the update and the
\* manual_reset row
reset_suspension ==
    /\ dispatch.pc = "resume"
    /\ dispatch' = [dispatch EXCEPT !.cred = enabled_row(@), !.count = 0]
    /\ UNCHANGED <<core, diff, captcha, sched, remind, scraper, agg>>

InitResume ==
    /\ clock = 0
    /\ user_credentials = [t \in Tenants |-> NoCredentials]
    /\ scraping_errors = [t \in Tenants |-> NoRow]
    /\ notification_dedup = {}
    /\ scrape_history = [t \in Tenants |-> [last |-> None, has_success |-> FALSE]]
    /\ job = [j \in Jobs |-> IdleJob]
    /\ resetting = [t \in Tenants |-> FALSE]
    /\ failed_runs = [t \in Tenants |-> 0]
    /\ diff = NoDiff
    /\ captcha = NoCaptcha
    /\ sched = NoSched
    /\ remind = NoRemind
    /\ scraper = NoScraper
    /\ agg = NoAgg
    /\ dispatch = [pc |-> "resume", cred |-> NoCredentials, count |-> 0,
                   before |-> FALSE,
                   jobs |-> [l \in Lanes |-> "idle"]]

NextResume ==
    \/ \E active \in BOOLEAN : post_settings(active)
    \/ \E l \in Lanes : begin_scrape(l)
    \/ \E l \in Lanes : log_error(l)
    \/ \E l \in Lanes : log_success(l)
    \/ reset_suspension

SpecResume == InitResume /\ [][NextResume]_vars

\* ================================================ login and CAPTCHA solving
MAX_LOGIN_RETRIES == 3
CaptchaAttempts == 2
NopechaAttempts == 2

\* An API key as it comes from user_credentials: NULL, or a string
ApiKeys ==
    {[null |-> TRUE, text |-> <<>>], [null |-> FALSE, text |-> <<>>],
     [null |-> FALSE, text |-> <<" ">>], [null |-> FALSE, text |-> <<"k">>]}

\* str.strip() == "": nothing but blanks
Blank(text) == \A i \in 1..Len(text) : text[i] = " "

\* A key is accepted whenever it is not None
validate_fcb_key_not_none(api_key) == ~api_key.null

\* scraper_logic.py validate_fcb_key, lines 202-209
validate_fcb_key(api_key) == ~(api_key.null \/ api_key.text = <<>> \/ Blank(api_key.text))

\* scraper_logic.py validate_captcha_services, lines 184-201; balance_ok is
\* the outcome of nopecha.Recognition.balance()
validate_captcha_services(fcb_api_key, nopecha_api_key, balance_ok) ==
    IF nopecha_api_key.null \/ nopecha_api_key.text = <<>> \/ Blank(nopecha_api_key.text)
    THEN validate_fcb_key(fcb_api_key)
    ELSE IF balance_ok THEN TRUE ELSE validate_fcb_key(fcb_api_key)

\* login lines 719-741: an exception inside an attempt is caught by the loop
RaiseInAttempt(r, exc) == [r EXCEPT !.pc = "except", !.exc = exc]

\* handle_captcha_conditionally lines 483-510: solve_captcha raised
CaptchaAttemptFailed(r) ==
    IF r.captcha_attempt >= CaptchaAttempts - 1
    THEN RaiseInAttempt(r, "solving_failed")
    ELSE [r EXCEPT !.captcha_attempt = @ + 1, !.pc = "solve"]

\* solve_captcha lines 338-346: strategy 2 starts, or no key for it
Strategy2(r) ==
    IF r.nopecha_api_key.null \/ Blank(r.nopecha_api_key.text)
    THEN CaptchaAttemptFailed(r)
    ELSE [r EXCEPT !.pc = "nopecha", !.nopecha_attempt = 0]

\* login lines 555-606 with handle_captcha_conditionally lines 417-480: the
\* form is loaded; a CAPTCHA is shown or not; its keys are validated
login_attempt(present, balance_ok) ==
    /\ captcha.pc = "login"
    /\ LET r == [captcha EXCEPT !.loads = @ + 1, !.url_changed = FALSE,
                                !.marker = FALSE] IN
       captcha' =
          IF ~present THEN [r EXCEPT !.pc = "submit"]
          ELSE IF ~validate_captcha_services(captcha.fcb_api_key,
                                             captcha.nopecha_api_key, balance_ok)
          THEN RaiseInAttempt([r EXCEPT !.seen = TRUE], "keys_required")
          ELSE [r EXCEPT !.pc = "solve", !.captcha_attempt = 0, !.seen = TRUE]
    /\ UNCHANGED <<core, diff, sched, dispatch, remind, scraper, agg>>

\* solve_captcha lines 315-336: strategy 1 only with a valid key
solve_captcha ==
    /\ captcha.pc = "solve"
    /\ captcha' =
          IF validate_fcb_key(captcha.fcb_api_key)
          THEN [captcha EXCEPT !.pc = "fcb", !.calls = <<>>]
          ELSE Strategy2([captcha EXCEPT !.calls = <<>>])
    /\ UNCHANGED <<core, diff, sched, dispatch, remind, scraper, agg>>

\* solve_captcha lines 323-334: the call of FreeCaptchaBypass, which
\* answers or fails within its timeout
solve_with_freecaptcha(ok) ==
    /\ captcha.pc = "fcb"
    /\ LET r == [captcha EXCEPT !.calls = Append(@, "fcb")] IN
       captcha' = IF ok THEN [r EXCEPT !.pc = "submit"] ELSE Strategy2(r)
    /\ UNCHANGED <<core, diff, sched, dispatch, remind, scraper, agg>>

\* A NopeCHA attempt that joins its worker thread without a timeout
nopecha_solve_joined(outcome) ==
    /\ captcha.pc = "nopecha"
    /\ LET r == [captcha EXCEPT !.calls = Append(@, "nopecha")] IN
       captcha' =
          IF outcome = "solved" THEN [r EXCEPT !.pc = "submit"]
          ELSE IF outcome = "hung" THEN [r EXCEPT !.pc = "join"]
          ELSE IF r.nopecha_attempt >= NopechaAttempts - 1
          THEN CaptchaAttemptFailed(r)
          ELSE [r EXCEPT !.nopecha_attempt = @ + 1]
    /\ UNCHANGED <<core, diff, sched, dispatch, remind, scraper, agg>>

\* solve_captcha lines 349-406: one NopeCHA attempt. The call runs in a
\* daemon thread that is joined for 30 s (374-379): it has answered, it has
\* raised, or it is still alive and is left behind (381-386)
nopecha_solve(outcome) ==
    /\ captcha.pc = "nopecha"
    /\ LET r == [captcha EXCEPT !.calls = Append(@, "nopecha"),
                                !.hung = @ \/ outcome = "hung"] IN
       captcha' =
          IF outcome = "solved" THEN [r EXCEPT !.pc = "submit"]
          ELSE IF r.nopecha_attempt >= NopechaAttempts - 1
          THEN CaptchaAttemptFailed(r)
          ELSE [r EXCEPT !.nopecha_attempt = @ + 1]
    /\ UNCHANGED <<core, diff, sched, dispatch, remind, scraper, agg>>

\* A login that returns as soon as the URL has left the login page
submit_login_unverified(submitted, url_changed, marker) ==
    /\ captcha.pc = "submit"
    /\ LET r == [captcha EXCEPT !.url_changed = submitted /\ url_changed,
                                !.marker = submitted /\ url_changed /\ marker] IN
       captcha' = IF ~submitted THEN RaiseInAttempt(r, "submit_failed")
                  ELSE IF ~url_changed THEN RaiseInAttempt(r, "no_redirect")
                  ELSE [r EXCEPT !.pc = "logged_in"]
    /\ UNCHANGED <<core, diff, sched, dispatch, remind, scraper, agg>>

\* login lines 614-717: the form is submitted by one of four strategies or
\* the attempt raises (657-658); the URL leaves Login.aspx within the wait
\* or the attempt raises (665, 693-717); one of the four dashboard
\* selectors is found and login returns (677-689), or the attempt raises
\* (691)
submit_login(submitted, url_changed, marker) ==
    /\ captcha.pc = "submit"
    /\ LET r == [captcha EXCEPT !.url_changed = submitted /\ url_changed,
                                !.marker = submitted /\ url_changed /\ marker] IN
       captcha' = IF ~submitted THEN RaiseInAttempt(r, "submit_failed")
                  ELSE IF ~url_changed THEN RaiseInAttempt(r, "no_redirect")
                  ELSE IF ~marker THEN RaiseInAttempt(r, "no_dashboard")
                  ELSE [r EXCEPT !.pc = "logged_in"]
    /\ UNCHANGED <<core, diff, sched, dispatch, remind, scraper, agg>>

\* login lines 719-741: the except clause of the attempt loop
login_except ==
    /\ captcha.pc = "except"
    /\ captcha' =
          IF captcha.attempt >= MAX_LOGIN_RETRIES - 1
          THEN [captcha EXCEPT !.pc = "raised", !.error_msg = "max_login"]
          ELSE [captcha EXCEPT !.pc = "login", !.attempt = @ + 1]
    /\ UNCHANGED <<core, diff, sched, dispatch, remind, scraper, agg>>

\* _login_with_tracking lines 123-134: the raised exception is classified
\* with the page the driver is on
classify_login_error(page) ==
    /\ captcha.pc = "raised"
    /\ captcha' = [captcha EXCEPT !.pc = "classified",
          !.error_type = detect_error_type(Exceptions[captcha.error_msg].kw, page)]
    /\ UNCHANGED <<core, diff, sched, dispatch, remind, scraper, agg>>

InitCaptcha ==
    /\ remind = NoRemind
    /\ scraper = NoScraper
    /\ agg = NoAgg
    /\ clock = 0
    /\ user_credentials = [t \in Tenants |-> NoCredentials]
    /\ scraping_errors = [t \in Tenants |-> NoRow]
    /\ notification_dedup = {}
    /\ scrape_history = [t \in Tenants |-> [last |-> None, has_success |-> FALSE]]
    /\ job = [j \in Jobs |-> IdleJob]
    /\ resetting = [t \in Tenants |-> FALSE]
    /\ failed_runs = [t \in Tenants |-> 0]
    /\ diff = NoDiff
    /\ \E f \in ApiKeys, n \in ApiKeys :
          captcha = [pc |-> "login", fcb_api_key |-> f, nopecha_api_key |-> n,
                     attempt |-> 0, captcha_attempt |-> 0, nopecha_attempt |-> 0,
                     calls |-> <<>>, seen |-> FALSE, exc |-> None,
                     error_msg |-> None, error_type |-> None,
                     loads |-> 0, url_changed |-> FALSE, marker |-> FALSE,
                     hung |-> FALSE]
    /\ sched = NoSched
    /\ dispatch = NoDispatch

NextCaptcha ==
    \/ \E present \in BOOLEAN, balance_ok \in BOOLEAN : login_attempt(present, balance_ok)
    \/ solve_captcha
    \/ \E ok \in BOOLEAN : solve_with_freecaptcha(ok)
    \/ \E outcome \in {"solved", "raised", "hung"} : nopecha_solve(outcome)
    \/ \E submitted \in BOOLEAN, url_changed \in BOOLEAN, marker \in BOOLEAN :
          submit_login(submitted, url_changed, marker)
    \/ login_except
    \/ \E page \in {{}, {"wrong captcha", "errorlbl"}} : classify_login_error(page)

SpecCaptcha == InitCaptcha /\ [][NextCaptcha]_vars

\* ------------------------------------------------ the classifier by itself
\* A text is the set of the phrases it contains, each written in lower or
\* in upper case.
ErrorPhrases ==
    {"credentials", "ip ban", "banned", "no credit", "insufficient credit",
     "nopecha", "failed", "freecaptchabypass", "captcha", "error", "timeout",
     "timed out", "connection", "refused", "reset", "page", "load",
     "not found", "404", "no such window", "target window already closed",
     "webdriver", "driver", "session", "invalid", "expired",
     "element not found", "selenium", "unexpected", "login", "scraping"}
PagePhrases ==
    {"wrong captcha", "errorlbl", "please enter correct username", "invalid",
     "maintenance", "under maintenance", "overloaded", "high traffic",
     "server busy"}

\* The phrases of the rules that are substrings of another phrase
Substrings(phrase) ==
    CASE phrase = "webdriver" -> {"driver"}
      [] phrase = "element not found" -> {"not found"}
      [] phrase = "under maintenance" -> {"maintenance"}
      [] phrase = "freecaptchabypass" -> {"captcha"}
      [] OTHER -> {}

\* str.lower() (lines 251-252), and what Python's "in" then finds in it
lower(text) ==
    UNION {{tok.phrase} \cup Substrings(tok.phrase) : tok \in text}

\* A text of at most two phrases in one case
Texts(phrases) ==
    {{[phrase |-> w, upper |-> u] : w \in ws} :
        ws \in {{}} \cup {{a, b} : a \in phrases, b \in phrases}, u \in BOOLEAN}

\* detect_error_type(error_message, page_source), lines 247-317
classify_error ==
    /\ captcha.pc = "detect"
    /\ captcha' = [captcha EXCEPT !.pc = "detected",
          !.error_type = detect_error_type(lower(captcha.error_message),
                                           lower(captcha.page_source))]
    /\ UNCHANGED <<core, diff, sched, dispatch, remind, scraper, agg>>

InitClassify ==
    /\ clock = 0
    /\ user_credentials = [t \in Tenants |-> NoCredentials]
    /\ scraping_errors = [t \in Tenants |-> NoRow]
    /\ notification_dedup = {}
    /\ scrape_history = [t \in Tenants |-> [last |-> None, has_success |-> FALSE]]
    /\ job = [j \in Jobs |-> IdleJob]
    /\ resetting = [t \in Tenants |-> FALSE]
    /\ failed_runs = [t \in Tenants |-> 0]
    /\ diff = NoDiff
    /\ sched = NoSched
    /\ dispatch = NoDispatch
    /\ remind = NoRemind
    /\ scraper = NoScraper
    /\ agg = NoAgg
    /\ \E m \in Texts(ErrorPhrases), p \in Texts(PagePhrases) :
          captcha = [pc |-> "detect", error_message |-> m, page_source |-> p,
                     error_type |-> None]

NextClassify == classify_error

SpecClassify == InitClassify /\ [][NextClassify]_vars

\* Every request to a provider is bounded (the timeouts of lines 234 and
\* 265, the polling budget of 250-255, the join of 379) and the portal
\* answers or its wait expires: the step that is due is taken.
SpecSolve == InitCaptcha /\ [][NextCaptcha]_vars /\ WF_vars(NextCaptcha)

\* ============================================ the scheduler and the lanes
\* Time is in hours here.  A tenant's row holds its automation flag, its
\* check_interval_hours and the scraped_at of its latest scrape_history row
\* (-1: no row).
SchedUsers == <<"t1", "t2">>
SchedIds == {SchedUsers[i] : i \in 1..Len(SchedUsers)}
Intervals == {1, 2}

\* The rows of the select at tasks.py line 258, in table order
ActiveUsers(users) ==
    LET active(t) == users[t].is_automation_active
    IN SelectSeq(SchedUsers, active)

\* The due test with the comparison strict
is_due_strict(last_scraped_at, interval, now) ==
    last_scraped_at = -1 \/ now > last_scraped_at + interval

\* queue_all_users_scrape lines 271-279
is_due(last_scraped_at, interval, now) ==
    last_scraped_at = -1 \/ now >= last_scraped_at + interval

\* apply_async(args=[user_id, queue_type], queue=lane)
Enqueue(lanes, lane, t) == [lanes EXCEPT ![lane][t] = @ + 1]

Hour ==
    /\ sched.now < MaxHour
    /\ sched' = [sched EXCEPT !.now = @ + 1]
    /\ UNCHANGED <<core, diff, captcha, dispatch, remind, scraper, agg>>

\* api/settings.py update_user_settings: the flag and the interval are saved
save_settings(t, active, interval) ==
    /\ sched' = [sched EXCEPT !.users[t].is_automation_active = active,
                              !.users[t].check_interval_hours = interval]
    /\ UNCHANGED <<core, diff, captcha, dispatch, remind, scraper, agg>>

\* A worker takes a message of a lane and runs the job, which writes a
\* scrape_history row when it succeeds (tasks.py 216-222) or fails
\* (238-243) and none when the tenant is suspended (177-180).
worker_runs(lane, t, outcome) ==
    /\ sched.lanes[lane][t] > 0
    /\ sched' = [sched EXCEPT !.lanes[lane][t] = @ - 1,
                              !.users[t].last_scraped_at =
                                   IF outcome = "SUSPENDED" THEN @ ELSE sched.now]
    /\ UNCHANGED <<core, diff, captcha, dispatch, remind, scraper, agg>>

\* main.py run_manual_scrape arrives for tenant t
post_run_manual(t) ==
    /\ sched.request = None
    /\ sched.lanes["manual"][t] < MaxManual
    /\ sched' = [sched EXCEPT !.request = t]
    /\ UNCHANGED <<core, diff, captcha, dispatch, remind, scraper, agg>>

\* The trigger going through the scheduler's due test and lane
manual_trigger_when_due(t) ==
    /\ sched.request = t
    /\ sched' = [sched EXCEPT !.request = None,
          !.lanes = IF /\ sched.users[t].is_automation_active
                       /\ is_due(sched.users[t].last_scraped_at,
                                 sched.users[t].check_interval_hours, sched.now)
                    THEN Enqueue(@, "background", t) ELSE @]
    /\ UNCHANGED <<core, diff, captcha, dispatch, remind, scraper, agg>>

\* main.py run_manual_scrape lines 45-57: the handler enqueues
manual_trigger(t) ==
    /\ sched.request = t
    /\ sched' = [sched EXCEPT !.request = None,
                              !.lanes = Enqueue(@, "manual", t)]
    /\ UNCHANGED <<core, diff, captcha, dispatch, remind, scraper, agg>>

\* queue_all_users_scrape lines 257-263: the select of the active users.
\* The beat starts one sweep an hour (celery_app.py lines 80-87).
sweep_select ==
    /\ sched.pc = "idle"
    /\ sched.swept_at < sched.now
    /\ \A t \in SchedIds : sched.lanes["background"][t] < MaxQueued
    /\ LET rows == ActiveUsers(sched.users) IN
       sched' = [sched EXCEPT
          !.swept_at = sched.now,
          !.users_to_check =
              [i \in 1..Len(rows) |->
                  [user_id |-> rows[i],
                   check_interval_hours |-> sched.users[rows[i]].check_interval_hours]],
          !.pc = IF rows = <<>> THEN "idle" ELSE "sweep"]
    /\ UNCHANGED <<core, diff, captcha, dispatch, remind, scraper, agg>>

\* queue_all_users_scrape lines 266-286: one turn of the loop
sweep_user ==
    /\ sched.pc = "sweep"
    /\ LET user_prefs == Head(sched.users_to_check)
           t == user_prefs.user_id
           due == is_due(sched.users[t].last_scraped_at,
                         user_prefs.check_interval_hours, sched.now)
       IN sched' = [sched EXCEPT
             !.users_to_check = Tail(@),
             !.lanes = IF due THEN Enqueue(@, "background", t) ELSE @,
             !.pc = IF Len(sched.users_to_check) = 1 THEN "idle" ELSE "sweep"]
    /\ UNCHANGED <<core, diff, captcha, dispatch, remind, scraper, agg>>

InitSched ==
    /\ remind = NoRemind
    /\ scraper = NoScraper
    /\ agg = NoAgg
    /\ clock = 0
    /\ user_credentials = [t \in Tenants |-> NoCredentials]
    /\ scraping_errors = [t \in Tenants |-> NoRow]
    /\ notification_dedup = {}
    /\ scrape_history = [t \in Tenants |-> [last |-> None, has_success |-> FALSE]]
    /\ job = [j \in Jobs |-> IdleJob]
    /\ resetting = [t \in Tenants |-> FALSE]
    /\ failed_runs = [t \in Tenants |-> 0]
    /\ diff = NoDiff
    /\ captcha = NoCaptcha
    /\ sched = [pc |-> "idle", now |-> 0,
                users |-> [t \in SchedIds |->
                    [is_automation_active |-> FALSE, check_interval_hours |-> 1,
                     last_scraped_at |-> -1]],
                users_to_check |-> <<>>, request |-> None, swept_at |-> -1,
                lanes |-> [l \in {"manual", "background"} |-> [t \in SchedIds |-> 0]]]
    /\ dispatch = NoDispatch

NextSched ==
    \/ Hour
    \/ \E t \in SchedIds, active \in BOOLEAN, interval \in Intervals :
          save_settings(t, active, interval)
    \/ \E lane \in {"manual", "background"}, t \in SchedIds,
          outcome \in {"SUCCESS", "FAILED", "SUSPENDED"} : worker_runs(lane, t, outcome)
    \/ \E t \in SchedIds : post_run_manual(t)
    \/ \E t \in SchedIds : manual_trigger(t)
    \/ sweep_select
    \/ sweep_user

SpecSched == InitSched /\ [][NextSched]_vars

\* ================================================= the channels of an alert
\* discord_webhook is absent, a URL holding "discord.com", or another URL;
\* the flags and the destinations are the columns read by
\* _get_user_preferences and _get_user_email.
Webhooks == {"absent", "discord.com", "other"}
Channels == {"discord", "email", "telegram"}
UserPrefs ==
    [discord_webhook : Webhooks,
     notify_via_email : BOOLEAN, user_email : BOOLEAN,
     notify_via_telegram : BOOLEAN, telegram_chat_id : BOOLEAN]

\* A channel's helper has made its delivery call; when the call raised, the
\* helper's except clause logs it and the helper returns.
Delivered(d, channel, raised, next) ==
    [d EXCEPT !.attempts = @ \cup {channel},
              !.failed = IF raised THEN @ \cup {channel} ELSE @,
              !.logged = IF raised THEN @ \cup {channel} ELSE @,
              !.pc = next]

\* A channel helper without its except clause: the exception leaves the
\* dispatcher.
Uncaught(d, channel, raised, next) ==
    [d EXCEPT !.attempts = @ \cup {channel},
              !.failed = IF raised THEN @ \cup {channel} ELSE @,
              !.raised = raised,
              !.pc = IF raised THEN "done" ELSE next]

\* _send_new_items_alerts lines 275-327: nothing to send, or the embeds
send_new_items_alerts ==
    /\ dispatch.pc = "alerts"
    /\ dispatch' = [dispatch EXCEPT !.pc = IF dispatch.total = 0 THEN "done" ELSE "discord"]
    /\ UNCHANGED <<core, diff, captcha, sched, remind, scraper, agg>>

\* The Discord helper letting a RequestException through
send_discord_notification_uncaught(raised) ==
    /\ dispatch.pc = "discord"
    /\ dispatch' = IF dispatch.user_prefs.discord_webhook # "discord.com"
                   THEN [dispatch EXCEPT !.pc = "email"]
                   ELSE Uncaught(dispatch, "discord", raised, "email")
    /\ UNCHANGED <<core, diff, captcha, sched, remind, scraper, agg>>

\* _send_discord_notification lines 65-77 (called at 328)
send_discord_notification(raised) ==
    /\ dispatch.pc = "discord"
    /\ dispatch' = IF dispatch.user_prefs.discord_webhook # "discord.com"
                   THEN [dispatch EXCEPT !.pc = "email"]
                   ELSE Delivered(dispatch, "discord", raised, "email")
    /\ UNCHANGED <<core, diff, captcha, sched, remind, scraper, agg>>

\* _build_email_html and _send_email_notification lines 79-88 (called 331-333)
send_email_notification(raised) ==
    /\ dispatch.pc = "email"
    /\ dispatch' = IF ~dispatch.user_prefs.notify_via_email \/ ~dispatch.user_prefs.user_email
                   THEN [dispatch EXCEPT !.pc = "telegram"]
                   ELSE Delivered(dispatch, "email", raised, "telegram")
    /\ UNCHANGED <<core, diff, captcha, sched, remind, scraper, agg>>

\* _build_telegram_message and _send_telegram_notification lines 90-98
\* (called 336-337)
send_telegram_notification(raised) ==
    /\ dispatch.pc = "telegram"
    /\ dispatch' = IF \/ ~dispatch.user_prefs.notify_via_telegram
                      \/ ~dispatch.user_prefs.telegram_chat_id
                   THEN [dispatch EXCEPT !.pc = "done"]
                   ELSE Delivered(dispatch, "telegram", raised, "done")
    /\ UNCHANGED <<core, diff, captcha, sched, remind, scraper, agg>>

InitDispatch ==
    /\ remind = NoRemind
    /\ scraper = NoScraper
    /\ agg = NoAgg
    /\ clock = 0
    /\ user_credentials = [t \in Tenants |-> NoCredentials]
    /\ scraping_errors = [t \in Tenants |-> NoRow]
    /\ notification_dedup = {}
    /\ scrape_history = [t \in Tenants |-> [last |-> None, has_success |-> FALSE]]
    /\ job = [j \in Jobs |-> IdleJob]
    /\ resetting = [t \in Tenants |-> FALSE]
    /\ failed_runs = [t \in Tenants |-> 0]
    /\ diff = NoDiff
    /\ captcha = NoCaptcha
    /\ sched = NoSched
    /\ \E prefs \in UserPrefs, total \in 0..MaxItems :
          dispatch = [pc |-> "alerts", user_prefs |-> prefs, total |-> total,
                      attempts |-> {}, failed |-> {}, logged |-> {}, raised |-> FALSE]

NextDispatch ==
    \/ send_new_items_alerts
    \/ \E raised \in BOOLEAN : send_discord_notification(raised)
    \/ \E raised \in BOOLEAN : send_email_notification(raised)
    \/ \E raised \in BOOLEAN : send_telegram_notification(raised)

SpecDispatch == InitDispatch /\ [][NextDispatch]_vars

\* ================================================== the deadline reminders
\* Time is in hours.  A task of the stored snapshot carries the text of its
\* closed_at field: an absolute date, the portal's "Will be closed after:
\* n hours" counted from the moment the page was read, or a text no format
\* matches (value -1).
ClosedAts ==
    {[kind |-> "absolute", value |-> 2], [kind |-> "relative", value |-> 1],
     [kind |-> "none", value |-> -1]}
ReminderTasks == [course : {StrA}, name : {StrA, StrB}, closed_at : ClosedAts]
ReminderHours == {0, 1, 2}

\* The open tasks of a stored snapshot: the quizzes without results, then
\* the assignments (tasks.py 322-323)
ReminderSnapshots ==
    {<<>>} \cup {<<t>> : t \in ReminderTasks}
           \cup {<<t, u>> : t \in {x \in ReminderTasks : x.name = StrA},
                            u \in {x \in ReminderTasks : x.name = StrB}}

\* utils/date_processor.py parse_deadline_date, called at hour now: the
\* date, or -1 when there is none
parse_deadline_date(date_str, now) ==
    CASE date_str.kind = "absolute" -> date_str.value
      [] date_str.kind = "relative" -> now + date_str.value  \* parse_relative_time
      [] OTHER -> -1

\* tasks.py line 340
task_identifier(task) == course_name_id(task)

\* The select of line 343 finding nothing whatever the table holds
reminder_sent_never(sent_reminders, id) == FALSE

\* tasks.py lines 343-346: a row of sent_reminders for the identifier
reminder_sent(sent_reminders, id) ==
    \E row \in sent_reminders : row.task_identifier = id

\* The loop body sending the reminder first and recording it afterwards
remind_task_send_first(task, now, reminder_hours, insert_fails, send_fails, st) ==
    LET deadline == parse_deadline_date(task.closed_at, now)
        id == task_identifier(task)
        in_window == /\ deadline # -1
                     /\ deadline - reminder_hours <= now
                     /\ now < deadline
    IN
    IF ~in_window \/ reminder_sent(st.sent_reminders, id)
    THEN st
    ELSE [sent_reminders |->
              IF id \in insert_fails \/ id \in send_fails THEN st.sent_reminders
              ELSE st.sent_reminders \cup {[task_identifier |-> id, sent_at |-> now]},
          reminders |-> [st.reminders EXCEPT ![id] = @ + 1],
          delivered |-> IF id \in send_fails THEN st.delivered
                        ELSE [st.delivered EXCEPT ![id] = @ + 1]]

\* tasks.py lines 325-366, one iteration of the loop over the tasks: st
\* holds the table, the calls of send_unified_deadline_reminder (reminders)
\* and those of them that reached a channel (delivered).  insert_fails are
\* the identifiers whose insert raises (lines 355-357: continue), send_fails
\* those whose delivery fails (lines 364-366, unified_notifier.py 727-732:
\* logged, the row stays).
remind_task(task, now, reminder_hours, insert_fails, send_fails, st) ==
    LET deadline == parse_deadline_date(task.closed_at, now)
        id == task_identifier(task)
        in_window == /\ deadline # -1
                     /\ deadline - reminder_hours <= now
                     /\ now < deadline
    IN
    IF ~in_window \/ reminder_sent(st.sent_reminders, id) \/ id \in insert_fails
    THEN st
    ELSE [sent_reminders |-> st.sent_reminders
                \cup {[task_identifier |-> id, sent_at |-> now]},
          reminders |-> [st.reminders EXCEPT ![id] = @ + 1],
          delivered |-> IF id \in send_fails THEN st.delivered
                        ELSE [st.delivered EXCEPT ![id] = @ + 1]]

\* tasks.py lines 325-366, the loop over the tasks
RECURSIVE remind_tasks(_, _, _, _, _, _)
remind_tasks(all_tasks, now, reminder_hours, insert_fails, send_fails, st) ==
    IF all_tasks = <<>> THEN st
    ELSE remind_tasks(Tail(all_tasks), now, reminder_hours, insert_fails, send_fails,
                      remind_task(Head(all_tasks), now, reminder_hours,
                                  insert_fails, send_fails, st))

\* check_for_deadline_reminders lines 291-368 for the tenant
check_for_deadline_reminders(insert_fails, send_fails) ==
    /\ LET selected == /\ remind.user_prefs.deadline_notifications
                       /\ remind.user_prefs.deadline_reminder_hours > 0
           st0 == [sent_reminders |-> remind.sent_reminders,
                   reminders |-> remind.reminders,
                   delivered |-> remind.delivered]
           st == IF selected /\ remind.has_snapshot
                 THEN remind_tasks(remind.tasks, remind.now,
                                   remind.user_prefs.deadline_reminder_hours,
                                   insert_fails, send_fails, st0)
                 ELSE st0
       IN remind' = [remind EXCEPT !.sent_reminders = st.sent_reminders,
                                   !.reminders = st.reminders,
                                   !.delivered = st.delivered,
                                   !.last_sweep_at = remind.now]
    /\ UNCHANGED <<core, diff, captcha, sched, dispatch, scraper, agg>>

\* A successful job stores a new snapshot (tasks.py 216-222)
store_snapshot(tasks) ==
    /\ remind' = [remind EXCEPT !.has_snapshot = TRUE, !.tasks = tasks,
                                !.scraped_at = remind.now]
    /\ UNCHANGED <<core, diff, captcha, sched, dispatch, scraper, agg>>

\* api/settings.py update_user_settings: the reminder flag and hours
save_reminder_settings(enabled, hours) ==
    /\ remind' = [remind EXCEPT !.user_prefs =
                      [deadline_notifications |-> enabled,
                       deadline_reminder_hours |-> hours]]
    /\ UNCHANGED <<core, diff, captcha, sched, dispatch, scraper, agg>>

RemindHour ==
    /\ remind.now < MaxHour
    /\ remind' = [remind EXCEPT !.now = @ + 1]
    /\ UNCHANGED <<core, diff, captcha, sched, dispatch, scraper, agg>>

RemindIds == {task_identifier(t) : t \in ReminderTasks}

InitRemind ==
    /\ clock = 0
    /\ user_credentials = [t \in Tenants |-> NoCredentials]
    /\ scraping_errors = [t \in Tenants |-> NoRow]
    /\ notification_dedup = {}
    /\ scrape_history = [t \in Tenants |-> [last |-> None, has_success |-> FALSE]]
    /\ job = [j \in Jobs |-> IdleJob]
    /\ resetting = [t \in Tenants |-> FALSE]
    /\ failed_runs = [t \in Tenants |-> 0]
    /\ diff = NoDiff
    /\ captcha = NoCaptcha
    /\ sched = NoSched
    /\ dispatch = NoDispatch
    /\ scraper = NoScraper
    /\ agg = NoAgg
    /\ remind = [now |-> 0,
                 user_prefs |-> [deadline_notifications |-> FALSE,
                                 deadline_reminder_hours |-> 0],
                 has_snapshot |-> FALSE, tasks |-> <<>>, scraped_at |-> -1,
                 sent_reminders |-> {}, reminders |-> [id \in RemindIds |-> 0],
                 delivered |-> [id \in RemindIds |-> 0],
                 last_sweep_at |-> -1]

NextRemind ==
    \/ RemindHour
    \/ \E enabled \in BOOLEAN, hours \in ReminderHours :
          save_reminder_settings(enabled, hours)
    \/ \E tasks \in ReminderSnapshots : store_snapshot(tasks)
    \/ \E insert_fails \in SUBSET RemindIds, send_fails \in SUBSET RemindIds :
          check_for_deadline_reminders(insert_fails, send_fails)

SpecRemind == InitRemind /\ [][NextRemind]_vars

\* ==================================== one run of the scraper and its session
\* scraper.runs[r] is a call of run_scrape_with_error_tracking: driver is 0
\* for None, else the number of the browser session that initialize_driver
\* created for it; alive says whether that session still answers; the page
\* sets hold the numbers 1..NumPages of the pages of page_map.
Runs == {"r1", "r2"}
Pages == 1..NumPages
max_attempts == 2

IdleRun ==
    [pc |-> "start", attempt |-> 0, driver |-> 0, alive |-> FALSE, vague |-> FALSE,
     page |-> 0, markers |-> {}, navigated |-> {}, extracted |-> {},
     failed |-> {}, session_failed |-> {}, windows_closed |-> FALSE,
     quit_called |-> FALSE, result |-> None]

\* The outcomes of one turn of the loop over page_map.  says_session: the
\* text of the exception holds "session"; dies: the browser session stops
\* answering during the turn.
PageSteps ==
    {[step |-> "ok", says_session |-> FALSE, dies |-> FALSE],
     [step |-> "navigate_false", says_session |-> FALSE, dies |-> FALSE],
     [step |-> "navigate_false", says_session |-> FALSE, dies |-> TRUE],
     [step |-> "navigate_raises", says_session |-> TRUE, dies |-> TRUE],
     [step |-> "scrape_raises", says_session |-> FALSE, dies |-> FALSE],
     [step |-> "scrape_raises", says_session |-> FALSE, dies |-> TRUE],
     [step |-> "scrape_raises", says_session |-> TRUE, dies |-> FALSE],
     [step |-> "scrape_raises", says_session |-> TRUE, dies |-> TRUE]}

\* A try block left without its finally clause
Return_without_finally(r, result) ==
    [r EXCEPT !.result = result, !.pc = "returned"]

\* run_scrape_with_error_tracking lines 62-80: a return or a raise inside
\* the try statement goes through the finally clause
Return(r, result) ==
    [r EXCEPT !.result = result, !.pc = "finally"]

\* The test of line 204 never finding the word
is_session_error_never(says_session) == FALSE

\* _scrape_all_pages_with_tracking line 204
is_session_error(says_session) == says_session

\* The loop goes to the next key of page_map, or ends
NextKey(r) ==
    IF r.page = NumPages THEN [r EXCEPT !.pc = "log_success"]
    ELSE [r EXCEPT !.page = @ + 1]

\* run_scrape_with_error_tracking lines 36-48
run_start(r, suspended) ==
    /\ scraper.runs[r].pc = "start"
    /\ scraper' = [scraper EXCEPT !.runs[r] =
          IF suspended THEN [@ EXCEPT !.pc = "returned", !.result = "suspended"]
          ELSE [@ EXCEPT !.pc = "init", !.attempt = 1]]
    /\ UNCHANGED <<core, diff, captcha, sched, dispatch, remind, agg>>

\* _initialize_driver_with_tracking lines 82-108 around initialize_driver
\* (scraper_logic.py 51-87): a new browser session, or no driver at all
run_initialize_driver(r, ok) ==
    LET q == scraper.runs[r] IN
    /\ q.pc = "init"
    /\ scraper' =
         IF ok
         THEN [scraper EXCEPT !.created = @ + 1,
                              !.runs[r] = [q EXCEPT !.driver = scraper.created + 1,
                                                    !.alive = TRUE, !.pc = "login"]]
         ELSE IF q.attempt < max_attempts
         THEN [scraper EXCEPT !.runs[r] = [q EXCEPT !.attempt = @ + 1]]
         ELSE [scraper EXCEPT !.runs[r] = [q EXCEPT !.pc = "except"]]
    /\ UNCHANGED <<core, diff, captcha, sched, dispatch, remind, agg>>

\* _login_with_tracking lines 110-155: it returns, or raises again what
\* login raised, a vague text or not
run_login(r, ok, vague, dies) ==
    LET q == scraper.runs[r] IN
    /\ q.pc = "login"
    /\ ok => ~vague /\ ~dies
    /\ scraper' = [scraper EXCEPT !.runs[r] =
          IF ok THEN [q EXCEPT !.pc = "page", !.page = 1]
          ELSE [q EXCEPT !.pc = "except", !.vague = vague,
                         !.alive = q.alive /\ ~dies]]
    /\ UNCHANGED <<core, diff, captcha, sched, dispatch, remind, agg>>

\* _scrape_all_pages_with_tracking lines 166-211: one turn of the loop
run_scrape_page(r, o) ==
    LET q == scraper.runs[r]
        k == q.page
        Marked(x, session) ==
            [x EXCEPT !.markers = @ \cup {k}, !.failed = @ \cup {k},
                      !.session_failed = IF session THEN @ \cup {k} ELSE @]
    IN
    /\ q.pc = "page"
    /\ scraper' = [scraper EXCEPT !.runs[r] =
          IF ~q.alive
          THEN \* lines 169-180: the session check raises, lines 198-211 break
               IF is_session_error(TRUE)
               THEN [Marked(q, TRUE) EXCEPT !.pc = "log_success"]
               ELSE NextKey(Marked(q, TRUE))
          ELSE
            LET n == [q EXCEPT !.navigated = @ \cup {k}, !.alive = ~o.dies] IN
            CASE o.step = "ok" ->
                   NextKey([n EXCEPT !.extracted = @ \cup {k}])
              [] o.step = "navigate_false" ->
                   NextKey(Marked(n, FALSE))
              [] o.step = "navigate_raises" ->
                   IF is_session_error(o.says_session)
                   THEN [Marked(n, TRUE) EXCEPT !.pc = "log_success"]
                   ELSE NextKey(Marked(n, TRUE))
              [] OTHER ->
                   LET x == [n EXCEPT !.extracted = @ \cup {k}] IN
                   IF is_session_error(o.says_session)
                   THEN [Marked(x, o.says_session) EXCEPT !.pc = "log_success"]
                   ELSE NextKey(Marked(x, o.says_session))]
    /\ UNCHANGED <<core, diff, captcha, sched, dispatch, remind, agg>>

\* lines 58-62: log_success, then the return of the data; or log_success
\* raises
run_log_success(r, ok) ==
    LET q == scraper.runs[r] IN
    /\ q.pc = "log_success"
    /\ scraper' = [scraper EXCEPT !.runs[r] =
          IF ok THEN Return(q, "success") ELSE [q EXCEPT !.pc = "except"]]
    /\ UNCHANGED <<core, diff, captcha, sched, dispatch, remind, agg>>

\* lines 64-77: the vague text returns at once, any other goes to
\* _handle_scraping_error, which returns the failure or raises itself
run_except(r, handler_raises) ==
    LET q == scraper.runs[r] IN
    /\ q.pc = "except"
    /\ scraper' = [scraper EXCEPT !.runs[r] =
          IF q.vague THEN Return(q, "failed_untracked")
          ELSE IF handler_raises THEN Return(q, "raised")
          ELSE Return(q, "failed")]
    /\ UNCHANGED <<core, diff, captcha, sched, dispatch, remind, agg>>

\* lines 79-80 and _cleanup_driver lines 317-332
run_cleanup_driver(r, close_raises, quit_raises) ==
    LET q == scraper.runs[r] IN
    /\ q.pc = "finally"
    /\ q.driver = 0 => ~close_raises /\ ~quit_raises
    /\ scraper' =
         IF q.driver = 0
         THEN [scraper EXCEPT !.runs[r] = [q EXCEPT !.pc = "returned"]]
         ELSE [scraper EXCEPT
                 !.runs[r] = [q EXCEPT !.windows_closed = ~close_raises,
                                       !.quit_called = TRUE, !.alive = FALSE,
                                       !.pc = "returned"],
                 !.released = IF quit_raises THEN @ ELSE @ \cup {q.driver}]
    /\ UNCHANGED <<core, diff, captcha, sched, dispatch, remind, agg>>

InitScraper ==
    /\ clock = 0
    /\ user_credentials = [t \in Tenants |-> NoCredentials]
    /\ scraping_errors = [t \in Tenants |-> NoRow]
    /\ notification_dedup = {}
    /\ scrape_history = [t \in Tenants |-> [last |-> None, has_success |-> FALSE]]
    /\ job = [j \in Jobs |-> IdleJob]
    /\ resetting = [t \in Tenants |-> FALSE]
    /\ failed_runs = [t \in Tenants |-> 0]
    /\ diff = NoDiff
    /\ captcha = NoCaptcha
    /\ sched = NoSched
    /\ dispatch = NoDispatch
    /\ remind = NoRemind
    /\ agg = NoAgg
    /\ scraper = [runs |-> [r \in Runs |-> IdleRun], created |-> 0, released |-> {}]

\* One run, every outcome of every page
NextScraper ==
    \/ \E suspended \in BOOLEAN : run_start("r1", suspended)
    \/ \E ok \in BOOLEAN : run_initialize_driver("r1", ok)
    \/ \E ok \in BOOLEAN, vague \in BOOLEAN, dies \in BOOLEAN :
          run_login("r1", ok, vague, dies)
    \/ \E o \in PageSteps : run_scrape_page("r1", o)
    \/ \E ok \in BOOLEAN : run_log_success("r1", ok)
    \/ \E handler_raises \in BOOLEAN : run_except("r1", handler_raises)
    \/ \E close_raises \in BOOLEAN, quit_raises \in BOOLEAN :
          run_cleanup_driver("r1", close_raises, quit_raises)

SpecScraper == InitScraper /\ [][NextScraper]_vars

\* Two runs side by side, as two workers make them; a page is extracted or
\* its extraction raises
SessionPageSteps ==
    {o \in PageSteps : o.step = "ok" \/ (o.step = "scrape_raises" /\ o.dies)}

NextSessions ==
    \/ \E r \in Runs, suspended \in BOOLEAN : run_start(r, suspended)
    \/ \E r \in Runs, ok \in BOOLEAN : run_initialize_driver(r, ok)
    \/ \E r \in Runs, ok \in BOOLEAN, vague \in BOOLEAN, dies \in BOOLEAN :
          run_login(r, ok, vague, dies)
    \/ \E r \in Runs, o \in SessionPageSteps : run_scrape_page(r, o)
    \/ \E r \in Runs, ok \in BOOLEAN : run_log_success(r, ok)
    \/ \E r \in Runs, handler_raises \in BOOLEAN : run_except(r, handler_raises)
    \/ \E r \in Runs, close_raises \in BOOLEAN, quit_raises \in BOOLEAN :
          run_cleanup_driver(r, close_raises, quit_raises)

SpecSessions == InitScraper /\ [][NextSessions]_vars

\* ================================================ the archive of all runs
\* api/history.py get_all_data: every successful record of the tenant is
\* read and its items are merged into one dictionary per category.
MaxRuns == 2

AggAbsences ==
    {[course |-> StrA, date |-> StrAA, type |-> StrA],
     [course |-> StrAA, date |-> StrA, type |-> StrA],
     [course |-> StrA, date |-> StrAA, type |-> StrB]}
AggAssignments ==
    {[course |-> StrA, name |-> StrB],
     [course |-> StrB, name |-> StrA]}
AggQuizzes == {[course |-> StrA, name |-> StrB]}

\* scraped_data of one successful record (tasks.py lines 216-222)
AggRecords ==
    [quizzes : [courses_found_on_page : {{StrA}},
                quizzes_with_results : ListsUpTo(AggQuizzes, 1),
                quizzes_without_results : ListsUpTo(AggQuizzes, 1)],
     assignments : [courses_found_on_page : {{StrB}},
                    assignments : ListsUpTo(AggAssignments, 1)],
     absences : [absences : ListsUpTo(AggAbsences, 2)]]

\* history.py lines 114, 120: quiz['name'] + quiz['course']
name_course_key(x) == x.name \o x.course

\* history.py line 126:
\* f"{absence.get('course', '')}-{absence.get('date', '')}-{absence.get('type', '')}"
absence_key(x) == x.course \o Hyphen \o x.date \o Hyphen \o x.type

\* d[key] = value of a Python dictionary, kept as the sequence of its
\* entries in insertion order: a key that is present keeps its place and
\* takes the new value
dict_set(d, key, value) ==
    IF \E i \in 1..Len(d) : d[i].key = key
    THEN [i \in 1..Len(d) |->
             IF d[i].key = key THEN [key |-> key, value |-> value] ELSE d[i]]
    ELSE Append(d, [key |-> key, value |-> value])

\* list(d.values())
dict_values(d) == [i \in 1..Len(d) |-> d[i].value]

\* The loops of lines 113-114 and 119-120 over one list
RECURSIVE merge_by_name_course(_, _)
merge_by_name_course(d, items) ==
    IF items = <<>> THEN d
    ELSE merge_by_name_course(
             dict_set(d, name_course_key(Head(items)), Head(items)), Tail(items))

\* The loop of lines 123-127 over the absences of one record
RECURSIVE merge_absences(_, _)
merge_absences(d, items) ==
    IF items = <<>> THEN d
    ELSE merge_absences(
             dict_set(d, absence_key(Head(items)), Head(items)), Tail(items))

\* Characters in code-point order, strings in Python's order
CharRank(c) == CASE c = "-" -> 0 [] c = "a" -> 1 [] OTHER -> 2

RECURSIVE str_less(_, _)
str_less(x, y) ==
    IF y = <<>> THEN FALSE
    ELSE IF x = <<>> THEN TRUE
    ELSE IF Head(x) = Head(y) THEN str_less(Tail(x), Tail(y))
    ELSE CharRank(Head(x)) < CharRank(Head(y))

\* sorted(list(s)), line 130
sorted_list(s) ==
    CHOOSE q \in [1..Cardinality(s) -> s] :
        \A i, k \in 1..Cardinality(s) : i < k => str_less(q[i], q[k])

\* The loop over the records (lines 107-127), in the order the rows came
RECURSIVE aggregate(_, _)
aggregate(rows, acc) ==
    IF rows = <<>> THEN acc
    ELSE LET data == Head(rows) IN
         aggregate(Tail(rows),
             [all_courses |->
                 acc.all_courses \cup data.quizzes.courses_found_on_page
                                 \cup data.assignments.courses_found_on_page,
              all_quizzes |->
                 merge_by_name_course(acc.all_quizzes,
                     data.quizzes.quizzes_with_results
                        \o data.quizzes.quizzes_without_results),
              all_assignments |->
                 merge_by_name_course(acc.all_assignments,
                     data.assignments.assignments),
              all_absences |->
                 merge_absences(acc.all_absences, data.absences.absences)])

\* The response model AllData (lines 84-88, 129-134)
AllData(acc) ==
    [courses |-> sorted_list(acc.all_courses),
     quizzes |-> dict_values(acc.all_quizzes),
     assignments |-> dict_values(acc.all_assignments),
     absences |-> dict_values(acc.all_absences)]

EmptyAggregate ==
    [all_courses |-> {}, all_quizzes |-> <<>>, all_assignments |-> <<>>,
     all_absences |-> <<>>]

\* A successful execution stores its record (tasks.py lines 216-222)
store_success_record(data) ==
    /\ agg.pc = "ready"
    /\ Len(agg.history) < MaxRuns
    /\ agg' = [agg EXCEPT !.history = Append(@, data), !.served = FALSE]
    /\ UNCHANGED <<core, diff, captcha, sched, dispatch, remind, scraper>>

\* GET /history/get-all-data-archive (lines 90-134). The select of line 100
\* has no ORDER BY, so the rows arrive in an order the database chooses.
get_all_data ==
    /\ agg.pc = "ready"
    /\ \E order \in Permutations(1..Len(agg.history)) :
          LET rows == [i \in 1..Len(agg.history) |-> agg.history[order[i]]]
          IN agg' = [agg EXCEPT !.out = AllData(aggregate(rows, EmptyAggregate)),
                                !.served = TRUE]
    /\ UNCHANGED <<core, diff, captcha, sched, dispatch, remind, scraper>>

InitAgg ==
    /\ clock = 0
    /\ user_credentials = [t \in Tenants |-> NoCredentials]
    /\ scraping_errors = [t \in Tenants |-> NoRow]
    /\ notification_dedup = {}
    /\ scrape_history = [t \in Tenants |-> [last |-> None, has_success |-> FALSE]]
    /\ job = [j \in Jobs |-> IdleJob]
    /\ resetting = [t \in Tenants |-> FALSE]
    /\ failed_runs = [t \in Tenants |-> 0]
    /\ diff = NoDiff
    /\ captcha = NoCaptcha
    /\ sched = NoSched
    /\ dispatch = NoDispatch
    /\ remind = NoRemind
    /\ scraper = NoScraper
    /\ agg = [pc |-> "ready", history |-> <<>>,
              out |-> AllData(EmptyAggregate), served |-> FALSE]

NextAgg ==
    \/ \E data \in AggRecords : store_success_record(data)
    \/ get_all_data

SpecAgg == InitAgg /\ [][NextAgg]_vars

\* ================================================================ claims

C2_NoFalseSuspension ==
    \A t \in Tenants :
        user_credentials[t].scraping_suspended =>
            failed_runs[t] >= max_consecutive_failures

\* C3: a failed job execution has persisted at most one failure event, so it
\* adds at most one to the consecutive-failure count.
C3_OneEventPerFailedRun ==
    \A j \in Jobs : job[j].pc = "task_except" => job[j].n_events <= 1

C5_SuspendedImpliesInactive ==
    \A t \in Tenants :
        user_credentials[t].scraping_suspended =>
            ~user_credentials[t].is_automation_active

C7_GenericNotCounted ==
    \A j \in Jobs :
        (/\ job[j].exc \in LoginExceptions
         /\ \/ Vague(job[j].exc)
            \/ detect_error_type(Exceptions[job[j].exc].kw,
                                 Exceptions[job[j].exc].page) \in GenericTypes)
        => job[j].n_events = 0

\* C8: when a failed execution has handed its exception to the queue, the
\* error was classified, the circuit breaker updated, an error notification
\* dispatched and one failed job record persisted.
C8_FailedRunFullyTracked ==
    \A j \in Jobs :
        job[j].result \in {"RETRY", "FAILURE"} =>
            /\ job[j].classified
            /\ job[j].n_events >= 1
            /\ "error" \in job[j].notified
            /\ job[j].n_records = 1

\* C9: a call of should_send_notification is blocked exactly when a record
\* with its (tenant, type, content hash) was written at most
\* dedup_window_minutes ago, and goes on to write its own record otherwise.
C9_BlockedInsideWindowOnly ==
    [][\A j \in Jobs :
        (job[j].pc = "dd_select" /\ job'[j].pc # "dd_select") =>
            LET inside == \E row \in notification_dedup :
                    /\ row.notification_id[1] = job[j].user_id
                    /\ row.notification_id[2] = job[j].ntype
                    /\ row.notification_id[3] = <<job[j].ntype, job[j].content>>
                    /\ row.sent_at <= clock
                    /\ clock - row.sent_at <= dedup_window_minutes
            IN  /\ inside => job'[j].result = "BLOCKED"
                /\ ~inside => job'[j].pc = "dd_insert"
      ]_vars

\* A second send was permitted after the window of the first had elapsed,
\* and a call inside a window has been blocked.
C9_Witness ==
    /\ \E j \in Jobs : job[j].result = "BLOCKED"
    /\ \E r1, r2 \in notification_dedup :
          /\ r1.notification_id = r2.notification_id
          /\ r2.sent_at - r1.sent_at > dedup_window_minutes

\* C10: no two sends with the same key are permitted within one window of
\* each other.
C10_OnePermitPerWindow ==
    \A r1, r2 \in notification_dedup :
        (r1 # r2 /\ r1.notification_id = r2.notification_id /\ r1.sent_at <= r2.sent_at)
        => r2.sent_at - r1.sent_at > dedup_window_minutes

\* C11: a call of should_send_notification during which the store raised, on
\* the lookup or on the record write, has answered True: the notification is
\* sent.
C11_StoreFailureFailsOpen ==
    \A j \in Jobs :
        (job[j].exc = "store_error" /\ job[j].pc = "done") => job[j].result = "SENT"

\* The store raised for a call made inside the window of a record of the
\* same tenant, which a working store would have blocked, and for a call
\* that found the table empty.
C11_Witness ==
    /\ \E j \in Jobs :
          /\ job[j].exc = "store_error"
          /\ job[j].result = "SENT"
          /\ \E row \in notification_dedup :
                /\ row.notification_id[1] = job[j].user_id
                /\ clock - row.sent_at <= dedup_window_minutes
    /\ \E j \in Jobs :
          /\ job[j].exc = "store_error"
          /\ job[j].result = "SENT"
          /\ \A row \in notification_dedup :
                row.notification_id[1] # job[j].user_id

\* C12: diffing a snapshot against itself reports no new item in any
\* category, returns the count 0 and sends no new-items notification.
C12_DiffAgainstItself ==
    (diff.pc = "done" /\ diff.has_last /\ diff.last_data = diff.new_data) =>
        /\ diff.out.new_items_count = 0
        /\ \A c \in DOMAIN diff.out.new_items : diff.out.new_items[c] = <<>>
        /\ diff.out.sent = None

\* A snapshot with two assignments, a quiz, an absence and a course was
\* diffed against itself.
C12_Witness ==
    /\ diff.pc = "done"
    /\ diff.has_last
    /\ diff.last_data = diff.new_data
    /\ Len(diff.new_data.assignments) = 2
    /\ diff.new_data.assignments[1] # diff.new_data.assignments[2]
    /\ Len(diff.new_data.absences) = 1
    /\ Len(diff.new_data.course_registration) = 1
    /\ Len(diff.new_data.quizzes.quizzes_without_results) = 1

\* C13: for assignments, quizzes and absences the items reported as new are
\* exactly the items of the new list whose key tuple (course, name; for an
\* absence course, date, type) is the key tuple of no item of the previous
\* list.
C13_NewExactlyUnmatchedKeys ==
    (diff.pc = "done" /\ diff.has_last) =>
        LET pair(x) == <<x.course, x.name>>
            triple(x) == <<x.course, x.date, x.type>>
            unmatched_pair(old_list, new_list) ==
                LET keep(x) == \A i \in 1..Len(old_list) : pair(old_list[i]) # pair(x)
                IN SelectSeq(new_list, keep)
            unmatched_triple(old_list, new_list) ==
                LET keep(x) == \A i \in 1..Len(old_list) : triple(old_list[i]) # triple(x)
                IN SelectSeq(new_list, keep)
            l == diff.last_data
            n == diff.new_data
            r == diff.out.new_items
        IN  /\ r.assignments = unmatched_pair(l.assignments, n.assignments)
            /\ r.quizzes_with_results =
                  unmatched_pair(l.quizzes.quizzes_with_results,
                                 n.quizzes.quizzes_with_results)
            /\ r.quizzes_without_results =
                  unmatched_pair(l.quizzes.quizzes_without_results,
                                 n.quizzes.quizzes_without_results)
            /\ r.absences = unmatched_triple(l.absences, n.absences)

\* C14: a course offering of the new snapshot whose name is the name of no
\* course offering of the previous snapshot is counted in the job's
\* new-item count, with the new items of the other categories.
C14_NewCourseCounted ==
    (diff.pc = "done" /\ diff.has_last) =>
        LET old_courses == diff.last_data.course_registration
            keep(x) == \A i \in 1..Len(old_courses) : old_courses[i].name # x.name
            r == diff.out.new_items
        IN diff.out.new_items_count =
                Len(r.quizzes_with_results) + Len(r.quizzes_without_results)
              + Len(r.assignments) + Len(r.absences)
              + Len(SelectSeq(diff.new_data.course_registration, keep))

\* C15: on a first run the first-run summary is sent, never the new-items
\* notification, and the new-item count is the number of items of the new
\* snapshot in all categories.
C15_FirstRunCountsEverything ==
    (diff.pc = "done" /\ ~diff.has_last) =>
        /\ diff.out.sent = "first_scrape"
        /\ diff.out.new_items_count =
                Len(diff.new_data.quizzes.quizzes_with_results)
              + Len(diff.new_data.quizzes.quizzes_without_results)
              + Len(diff.new_data.assignments) + Len(diff.new_data.absences)
              + Len(diff.new_data.course_registration)

C17_SolverUnavailableCategory ==
    (captcha.pc = "classified" /\ captcha.exc \in {"keys_required", "solving_failed"}) =>
        captcha.error_type = "captcha_error"

C19_ManualAlwaysOnManualLane ==
    [][\A t \in SchedIds :
          (sched.request = t /\ sched'.request # t) =>
              /\ sched'.lanes["background"] = sched.lanes["background"]
              /\ \A u \in SchedIds :
                    sched'.lanes["manual"][u] =
                       sched.lanes["manual"][u] + (IF u = t THEN 1 ELSE 0)
      ]_vars

\* A manual job is queued for a tenant with automation off that is not due.
C19_Witness ==
    \E t \in SchedIds :
        /\ sched.lanes["manual"][t] = 1
        /\ sched.request = None
        /\ ~sched.users[t].is_automation_active
        /\ sched.users[t].last_scraped_at = sched.now
        /\ sched.lanes["background"][t] = 0

C21_OneReminderPerTask ==
    /\ [](\A id \in RemindIds : remind.reminders[id] <= 1)
    /\ [][/\ remind.sent_reminders \subseteq remind'.sent_reminders
          /\ \A id \in RemindIds :
                (\E row \in remind.sent_reminders : row.task_identifier = id)
                   => remind'.reminders[id] = remind.reminders[id]
         ]_vars

\* A reminder went out in an earlier hour; the latest sweep ran with the
\* task still inside the window it computes, and there is still one
\* reminder.
C21_Witness ==
    \E row \in remind.sent_reminders :
        /\ row.sent_at < remind.last_sweep_at
        /\ remind.last_sweep_at = remind.now
        /\ remind.user_prefs.deadline_notifications
        /\ remind.user_prefs.deadline_reminder_hours > 0
        /\ remind.reminders[row.task_identifier] = 1
        /\ \E i \in 1..Len(remind.tasks) :
              LET task == remind.tasks[i]
                  deadline == parse_deadline_date(task.closed_at, remind.now)
              IN /\ task_identifier(task) = row.task_identifier
                 /\ deadline # -1
                 /\ deadline - remind.user_prefs.deadline_reminder_hours <= remind.now
                 /\ remind.now < deadline

\* C22: a sweep sends a reminder for a task only if deadline notifications
\* are on with reminder hours > 0, the task's due date is parseable, and
\* due - reminder hours <= now < due, where due is the task's deadline (for
\* a "closed after n hours" text, n hours after the page was read).
C22_ReminderOnlyInsideWindow ==
    [][\A id \in RemindIds :
          remind'.reminders[id] > remind.reminders[id] =>
             /\ remind.user_prefs.deadline_notifications
             /\ remind.user_prefs.deadline_reminder_hours > 0
             /\ \E i \in 1..Len(remind.tasks) :
                   LET task == remind.tasks[i]
                       due == IF task.closed_at.kind = "relative"
                              THEN remind.scraped_at + task.closed_at.value
                              ELSE task.closed_at.value
                   IN /\ task_identifier(task) = id
                      /\ task.closed_at.kind # "none"
                      /\ due - remind.user_prefs.deadline_reminder_hours <= remind.now
                      /\ remind.now < due
      ]_vars

\* C23: a run that got a browser session has, when it has returned by the
\* success path, a tracked failure, a vague-error failure or an exception,
\* gone through the driver's cleanup with quit called; and no session is
\* the driver of two runs.
C23_SessionAlwaysCleanedUp ==
    /\ \A r \in Runs :
          (scraper.runs[r].pc = "returned" /\ scraper.runs[r].driver # 0)
             => scraper.runs[r].quit_called
    /\ \A r1 \in Runs, r2 \in Runs :
          (r1 # r2 /\ scraper.runs[r1].driver # 0)
             => scraper.runs[r1].driver # scraper.runs[r2].driver

\* Both runs had a session and have returned, one with success and one
\* with the vague-error failure, and both sessions were quit.
C23_Witness ==
    /\ scraper.runs["r1"].pc = "returned"
    /\ scraper.runs["r1"].result = "success"
    /\ scraper.runs["r2"].pc = "returned"
    /\ scraper.runs["r2"].result = "failed_untracked"
    /\ scraper.runs["r2"].driver # 0
    /\ scraper.runs["r1"].quit_called
    /\ scraper.runs["r2"].quit_called

\* C24: every page whose turn failed holds an error marker; after a failure
\* that does not indicate session invalidation the next page is taken up;
\* after one that does, no later page is navigated to or extracted.
C24_PageFailureIsolated ==
    \A r \in Runs :
        LET q == scraper.runs[r] IN
        /\ q.failed \subseteq q.markers
        /\ \A k \in q.session_failed :
              \A j \in q.navigated \cup q.extracted : j <= k
        /\ q.pc \notin {"start", "init", "login", "page"} =>
              \A k \in q.failed \ q.session_failed :
                  k < NumPages => (k + 1) \in q.navigated \cup q.failed

\* A run whose first page failed to load went on to extract the second,
\* then hit a session failure on the third and left the fourth alone.
C24_Witness ==
    \E r \in Runs :
        LET q == scraper.runs[r] IN
        /\ q.pc = "returned"
        /\ 1 \in q.failed \ q.session_failed
        /\ 2 \in q.extracted \ q.failed
        /\ 3 \in q.session_failed
        /\ 4 \notin q.navigated \cup q.markers

\* C25: the update of reset_suspension leaves the tenant not suspended,
\* with automation enabled and the suspension reason and timestamp cleared,
\* and its insert leaves a consecutive-failure count of 0, without any
\* successful job; and the suspension check of a job of a tenant that is
\* not suspended does not short-circuit the job.
C25_ResetReenablesAtOnce ==
    [][\A t \in Tenants :
          /\ (~resetting[t] /\ resetting'[t] /\ user_credentials[t].exists) =>
                /\ ~user_credentials'[t].scraping_suspended
                /\ user_credentials'[t].is_automation_active
                /\ user_credentials'[t].suspension_reason = None
                /\ user_credentials'[t].suspended_at = -1
          /\ (resetting[t] /\ ~resetting'[t]) =>
                /\ scraping_errors'[t].error_type = "manual_reset"
                /\ scraping_errors'[t].consecutive_failure_count = 0
                /\ scrape_history'[t] = scrape_history[t]
          /\ \A j \in Jobs :
                (/\ job[j].pc = "check_suspended"
                 /\ job[j].user_id = t
                 /\ job'[j].pc # "check_suspended"
                 /\ ~user_credentials[t].scraping_suspended)
                   => job'[j].result # "SUSPENDED" /\ job'[j].pc = "driver"
      ]_vars

\* The update of the override has just been applied to a tenant whose
\* latest failure suspended it and who never had a successful job: the
\* tenant is enabled again while no job is running.
C25_Witness ==
    \E t \in Tenants :
        /\ resetting[t]
        /\ scraping_errors[t].should_suspend_scraping
        /\ scraping_errors[t].consecutive_failure_count >= max_consecutive_failures
        /\ user_credentials[t].exists
        /\ user_credentials[t].is_automation_active
        /\ ~user_credentials[t].scraping_suspended
        /\ user_credentials[t].suspension_reason = None
        /\ ~scrape_history[t].has_success
        /\ \A j \in Jobs : job[j].pc = "idle"

\* C26: a manually triggered job runs the automation even when its tenant
\* is suspended: its suspension check never ends the job as SUSPENDED, it
\* goes on to start the driver (so that its success can lift the
\* suspension).
C26_ManualRunsWhileSuspended ==
    [][\A j \in Jobs :
          (/\ job[j].pc = "check_suspended"
           /\ job[j].queue_type = "manual"
           /\ job'[j].pc # "check_suspended")
             => job'[j].pc = "driver" /\ job'[j].result # "SUSPENDED"
      ]_vars

\* C27: a failed execution hands its exception to the queue, which runs the
\* message again at most max_retries times, each time countdown after the
\* failure; an execution that returned SUCCESS or SUSPENDED is not run
\* again; and every message that was taken up stops (returns for good),
\* unless its next run is due after the last clock value of the model.
C27_BoundedRetry ==
    /\ [](\A j \in Worker : job[j].retries <= max_retries)
    /\ [][\A j \in Worker :
            /\ (job[j].pc = "task_except" /\ job'[j].pc = "retry")
                  => /\ job[j].retries < max_retries
                     /\ job'[j].eta = clock + countdown
            /\ (job[j].pc = "task_except" /\ job'[j].pc # "task_except"
                   /\ job[j].retries >= max_retries)
                  => /\ job'[j].pc = "done"
                     /\ job'[j].result = "FAILURE"
            /\ (job[j].pc = "retry" /\ job'[j].pc # "retry")
                  => /\ job'[j].retries = job[j].retries + 1
                     /\ clock >= job[j].eta
            /\ (job[j].pc = "done" /\ job'[j].pc # "done")
                  => job'[j].pc = "idle"
            /\ job'[j].pc = "retry" => job'[j].result = "RETRY"]_vars
    /\ \A j \in Worker :
          (job[j].pc # "idle") ~>
             \/ job[j].pc \in {"done", "idle"}
             \/ /\ job[j].pc = "retry"
                /\ clock < job[j].eta
                /\ clock + TickStep > MaxTime

\* A message whose third execution has failed and that has stopped
C27_Witness ==
    \E j \in Worker :
        /\ job[j].pc = "done"
        /\ job[j].result = "FAILURE"
        /\ job[j].retries = max_retries
        /\ job[j].exc # None


\* C28: every execution that has returned has written exactly one
\* scrape_history record: one success record for a SUCCESS, one FAILED
\* record for a failure, and one record for a SUSPENDED short-circuit.
C28_OneRecordPerExecution ==
    \A j \in Worker :
        job[j].pc \in {"done", "retry"} => job[j].n_records = 1

\* C29: in the answer of get_all_data the absences of all successful
\* records are merged by (course, date, type): absences with the same three
\* fields appear once, and absences that differ in one of the three fields
\* appear as separate items.
C29_AbsencesMergedByTriple ==
    (agg.pc = "ready" /\ agg.served) =>
        LET triple(x) == <<x.course, x.date, x.type>>
            stored == UNION {{triple(agg.history[i].absences.absences[k]) :
                                 k \in 1..Len(agg.history[i].absences.absences)} :
                             i \in 1..Len(agg.history)}
            answered == agg.out.absences
        IN /\ {triple(answered[i]) : i \in 1..Len(answered)} = stored
           /\ Len(answered) = Cardinality(stored)

\* C30: log_error reads the tenant's latest count and inserts the new row
\* in two statements with nothing to hold the count in between: the row a
\* failing job inserts carries the count that job has read plus one,
\* whatever rows other jobs have inserted since the read. So a manual and a
\* scheduled job of one tenant that fail together can both read c and both
\* insert c + 1.
C30_CountReadThenWritten ==
    [][\A j \in Jobs :
          (job[j].pc = "le_insert" /\ job'[j].pc # "le_insert")
             => /\ scraping_errors'[job[j].user_id].consecutive_failure_count
                      = job[j].current_count + 1
                /\ \A i \in Jobs \ {j} : job'[i] = job[i]
      ]_vars

\* Two failures, one manual and one scheduled, each with its row inserted,
\* and the tenant's latest count is 1
C30_Witness ==
    \E i, j \in Jobs :
        /\ job[i].queue_type = "manual"
        /\ job[j].queue_type = "background"
        /\ job[i].user_id = job[j].user_id
        /\ job[i].n_events = 1
        /\ job[j].n_events = 1
        /\ job[i].retries = 0
        /\ job[j].retries = 0
        /\ scraping_errors[job[i].user_id].consecutive_failure_count = 1
        /\ failed_runs[job[i].user_id] = 2

\* C31: per tenant, the tenant is suspended exactly when the count of its
\* most recent circuit-breaker event has reached max_consecutive_failures,
\* also when a succeeding and a failing job of the tenant interleave. The
\* states in which a job or the manual reset stands between its event and
\* its update of the flag are left out: the property is required whenever
\* every job is at rest.
C31_SuspendedIffThreshold ==
    \A t \in Tenants :
        ((\A j \in Jobs : job[j].pc = "idle") /\ ~resetting[t])
           => (user_credentials[t].scraping_suspended
                  <=> get_consecutive_failure_count(t) >= max_consecutive_failures)

\* C32: login makes at most MAX_LOGIN_RETRIES attempts and every attempt
\* starts with a load of the login page; it returns only from an attempt in
\* which the URL had left the login page and a dashboard element was found;
\* it raises after the failure of the last attempt and of no other.
C32_LoginBoundedAndVerified ==
    /\ [](/\ captcha.pc # "idle" =>
               /\ captcha.attempt < MAX_LOGIN_RETRIES
               /\ captcha.loads <= MAX_LOGIN_RETRIES
               /\ captcha.loads \in {captcha.attempt, captcha.attempt + 1}
               /\ captcha.pc \notin {"login", "idle"} => captcha.loads = captcha.attempt + 1
          /\ captcha.pc = "logged_in" => (captcha.url_changed /\ captcha.marker)
          /\ captcha.pc \in {"raised", "classified"} =>
               /\ captcha.attempt = MAX_LOGIN_RETRIES - 1
               /\ captcha.loads = MAX_LOGIN_RETRIES
               /\ ~(captcha.url_changed /\ captcha.marker))
    /\ [][/\ (captcha.pc = "except" /\ captcha.attempt < MAX_LOGIN_RETRIES - 1)
                => captcha'.pc \in {"except", "login"}
          /\ (captcha.pc = "except" /\ captcha.attempt = MAX_LOGIN_RETRIES - 1)
                => captcha'.pc \in {"except", "raised"}
          /\ (captcha.pc = "logged_in" \/ captcha'.pc = "logged_in")
                => (captcha'.pc = "logged_in" /\ captcha.pc \in {"submit", "logged_in"})
         ]_vars

\* The third attempt left the login page but found no dashboard element,
\* and login has raised
C32_Witness ==
    /\ captcha.pc = "raised"
    /\ captcha.loads = MAX_LOGIN_RETRIES
    /\ captcha.url_changed
    /\ ~captcha.marker

\* C33: a call of solve_captcha ends with a solution or with a raised
\* failure: FreeCaptchaBypass is called at most once, first, and only with
\* a valid key; whatever it raises leads on to NopeCHA; NopeCHA is tried at
\* most NopechaAttempts times, and an attempt whose worker never answers is
\* given up like one that raised.
C33_SolveCaptchaTerminates ==
    /\ [](LET calls == captcha.calls IN
          captcha.pc # "idle" =>
             /\ Len(calls) <= 1 + NopechaAttempts
             /\ \A i \in 1..Len(calls) : calls[i] = "fcb" => i = 1
             /\ Len(SelectSeq(calls, LAMBDA c : c = "nopecha")) <= NopechaAttempts
             /\ (calls # <<>> /\ calls[1] = "fcb") => validate_fcb_key(captcha.fcb_api_key)
             /\ captcha.pc = "nopecha" => captcha.nopecha_attempt < NopechaAttempts)
    /\ [][/\ (captcha.pc = "fcb" /\ captcha'.pc # "fcb")
                => captcha'.pc \in {"submit", "nopecha", "solve", "except"}
          /\ (captcha.pc = "fcb" /\ captcha'.pc \in {"solve", "except"})
                => (captcha.nopecha_api_key.null \/ Blank(captcha.nopecha_api_key.text))
          /\ (captcha.pc = "nopecha" /\ captcha'.pc = "nopecha")
                => captcha'.nopecha_attempt = captcha.nopecha_attempt + 1
         ]_vars
    /\ (captcha.pc \in {"solve", "fcb", "nopecha"})
          ~> (captcha.pc \in {"submit", "except"})

\* Both providers were tried, FreeCaptchaBypass once and NopeCHA twice, a
\* NopeCHA worker never answered, and the call has raised
C33_Witness ==
    /\ captcha.pc = "except"
    /\ captcha.exc = "solving_failed"
    /\ captcha.calls = <<"fcb", "nopecha", "nopecha">>
    /\ captcha.hung

\* C34: detect_error_type answers for every message and page, the same
\* for the same input whatever its letter case; its answer is the category
\* of the first rule, in the order of the source, that the lowered input
\* matches; it is scraping_failed when no rule matches, and never
\* unknown_error.
C34_FirstMatchingRule ==
    captcha.pc = "detected" =>
        LET e == {tok.phrase : tok \in captcha.error_message}
                   \cup (IF \E tok \in captcha.error_message :
                               tok.phrase = "webdriver" THEN {"driver"} ELSE {})
                   \cup (IF \E tok \in captcha.error_message :
                               tok.phrase = "element not found" THEN {"not found"} ELSE {})
                   \cup (IF \E tok \in captcha.error_message :
                               tok.phrase = "freecaptchabypass" THEN {"captcha"} ELSE {})
            p == {tok.phrase : tok \in captcha.page_source}
                   \cup (IF \E tok \in captcha.page_source :
                               tok.phrase = "under maintenance" THEN {"maintenance"} ELSE {})
            any(ws, text) == ws \cap text # {}
            category == <<"wrong_captcha", "wrong_credentials", "ip_banned",
                          "no_captcha_credit", "captcha_service_error",
                          "captcha_service_error", "network_timeout",
                          "connection_failed", "page_load_failed",
                          "browser_crashed", "driver_error", "session_expired",
                          "dulms_maintenance", "dulms_overloaded",
                          "unexpected_page_structure", "wrong_credentials",
                          "scraping_failed">>
            matches(i) ==
                CASE i = 1 -> "wrong captcha" \in p
                  [] i = 2 -> \/ "please enter correct username" \in p
                              \/ ("invalid" \in p /\ "credentials" \in e)
                  [] i = 3 -> any({"ip ban", "banned"}, e)
                  [] i = 4 -> any({"no credit", "insufficient credit"}, e)
                  [] i = 5 -> any({"nopecha", "freecaptchabypass"}, e) /\ "failed" \in e
                  [] i = 6 -> "captcha" \in e /\ any({"failed", "error", "timeout"}, e)
                  [] i = 7 -> any({"timeout", "timed out"}, e)
                  [] i = 8 -> "connection" \in e /\ any({"failed", "refused", "reset"}, e)
                  [] i = 9 -> \/ ("page" \in e /\ any({"load", "not found"}, e))
                              \/ "404" \in e
                  [] i = 10 -> any({"no such window", "target window already closed"}, e)
                  [] i = 11 -> any({"webdriver", "driver"}, e) /\ any({"error", "failed"}, e)
                  [] i = 12 -> "session" \in e /\ any({"invalid", "expired"}, e)
                  [] i = 13 -> "maintenance" \in p
                  [] i = 14 -> any({"overloaded", "high traffic", "server busy"}, p)
                  [] i = 15 -> \/ ("element not found" \in e /\ "selenium" \in e)
                               \/ ("unexpected" \in e /\ "page" \in e)
                  [] i = 16 -> "login" \in e /\ any({"failed", "error"}, e)
                  [] i = 17 -> "scraping" \in e /\ "failed" \in e
            hits == {i \in 1..17 : matches(i)}
            first == CHOOSE i \in hits : \A k \in hits : i <= k
        IN /\ captcha.error_type # "unknown_error"
           /\ hits = {} => captcha.error_type = "scraping_failed"
           /\ hits # {} => captcha.error_type = category[first]

\* An upper-case message that two rules match ("CAPTCHA", "TIMEOUT"): the
\* earlier rule has answered
C34_Witness ==
    /\ captcha.pc = "detected"
    /\ captcha.error_message = {[phrase |-> "captcha", upper |-> TRUE],
                                [phrase |-> "timeout", upper |-> TRUE]}
    /\ captcha.page_source = {}
    /\ captcha.error_type = "captcha_service_error"

\* C35: over the successful runs of a tenant, a run's notification names
\* no item that an earlier notification of the tenant has named and that is
\* still on the portal, also after a run in which the item's page was not
\* scraped.
C35_NotifiedOnce ==
    diff.pc = "portal" => diff.again = {}

\* C36: the first-run summary is sent at most once to a tenant, also when
\* the insert of the success record fails after the summary was sent and the
\* queue runs the job again, and when a manual and a background job of a
\* tenant without a successful record overlap.
C36_FirstSummaryOnce ==
    diff.pc = "first" => diff.summaries <= 1

\* C37: at most one job of a tenant is queued or running on the background
\* lane: a sweep puts no new job on it for a tenant whose earlier background
\* job has not yet run and written its record.
C37_OneBackgroundJobPerTenant ==
    \A t \in SchedIds : sched.lanes["background"][t] <= 1

\* C38: lifting a suspension (by log_success or by reset_suspension) puts the
\* tenant's automation flag back to the value it had just before the tenant
\* was suspended.
C38_ResumeRestoresAutomationFlag ==
    [][(/\ dispatch.pc = "resume"
        /\ dispatch.cred.scraping_suspended
        /\ ~dispatch'.cred.scraping_suspended)
       => dispatch'.cred.is_automation_active = dispatch.before]_vars

\* C39: one execution of a job delivers at most one error alert to the
\* tenant's channels, also when a failed login is reported twice (by
\* _login_with_tracking and again by _handle_scraping_error).
C39_OneErrorAlertPerExecution ==
    \A j \in Jobs : job[j].ctx # "call" => job[j].n_alerts <= 1

\* C40: in the reminder sweep the row of sent_reminders is written before
\* the reminder is sent: a sweep calls the notifier for a task only in the
\* step that writes the task's row, so nothing is sent when the row cannot
\* be written; and once the row is written it stays, also when the delivery
\* fails, so the notifier is called at most once per task over all sweeps.
C40_RecordBeforeDelivery ==
    /\ [](\A id \in RemindIds :
            /\ remind.reminders[id] <= 1
            /\ remind.delivered[id] <= remind.reminders[id]
            /\ remind.reminders[id] = 1 =>
                  reminder_sent(remind.sent_reminders, id))
    /\ [][/\ remind.sent_reminders \subseteq remind'.sent_reminders
          /\ \A id \in RemindIds :
                remind'.reminders[id] > remind.reminders[id] =>
                   /\ ~reminder_sent(remind.sent_reminders, id)
                   /\ reminder_sent(remind'.sent_reminders, id)
         ]_vars

\* The delivery of a reminder failed in an earlier hour: its row is there,
\* nothing reached a channel, and the latest sweep, run with the task still
\* inside its window, has not called the notifier again.
C40_Witness ==
    \E row \in remind.sent_reminders :
        /\ row.sent_at < remind.last_sweep_at
        /\ remind.last_sweep_at = remind.now
        /\ remind.user_prefs.deadline_notifications
        /\ remind.user_prefs.deadline_reminder_hours > 0
        /\ remind.reminders[row.task_identifier] = 1
        /\ remind.delivered[row.task_identifier] = 0
        /\ \E i \in 1..Len(remind.tasks) :
              LET task == remind.tasks[i]
                  deadline == parse_deadline_date(task.closed_at, remind.now)
              IN /\ task_identifier(task) = row.task_identifier
                 /\ task.closed_at.kind = "absolute"
                 /\ deadline - remind.user_prefs.deadline_reminder_hours <= remind.now
                 /\ remind.now < deadline

====
